---- MODULE Spec2Model ----
(***************************************************************************)
(* Model of the empowHER backend's request handlers as they act on the     *)
(* document store.  A handler is a sequence of steps, one per awaited      *)
(* store call; the synchronous code between two awaits belongs to the step *)
(* of the call that precedes it.  Steps of different requests interleave.  *)
(*                                                                         *)
(* Documents are written through the ODM (mongoose, default versioning):   *)
(*   - array.push(x); doc.save()      -> atomic append to the stored array *)
(*     ($push), the document version is incremented, nothing is compared;  *)
(*   - array = filtered / array.unshift(x); doc.save()                     *)
(*     -> the stored array is replaced ($set) only if the stored version   *)
(*     equals the version read; otherwise save() throws VersionError and   *)
(*     the handler's catch block answers 500;                              *)
(*   - Model.findByIdAndUpdate(id, {$addToSet/$pull/$push}) is one atomic  *)
(*     update of one document and does not touch the version.              *)
(***************************************************************************)
EXTENDS Naturals, Sequences, FiniteSets

\* ------------------------------------------------------------------ bounds
\* requests admitted in one run of the community handlers
MaxReqs == 3
\* ticks of the clock in one run of the job handlers
MaxTime == 2

\* ------------------------------------------------------------- identifiers
None == "none"
\* a string that fails /^[0-9a-fA-F]{24}$/
BadId == "bad"
\* a well-formed id that names no stored user
UnknownUser == "u9"
\* a well-formed id that names no stored post
UnknownPost == "p9"
Users == {"u1", "u2"}
Communities == {"c1"}
Posts == {"p1"}

VARIABLES
  community,   \* Community collection: id -> document
  joined,      \* User.joinedCommunities: user -> set of community ids
  notified,    \* User.notifiedCommunities: user -> set of community ids
  post,        \* Post collection: id -> document
  creq,        \* community-controller requests: slot -> handler state
  cres,        \* the response sent last by a community-controller handler
  run,         \* observer: a join directly followed by a leave (no other step)
  job,         \* Job collection: id -> document
  appliedJobs, \* User.appliedJobs: user -> list of {job, status}
  now,         \* the clock read by new Date()
  jreq,        \* job-controller requests: slot -> handler state
  jres,        \* job-controller responses: slot -> response sent
  lreq,        \* like/unlike requests: slot -> handler state
  lres,        \* like/unlike responses: slot -> response sent
  savedJobs,   \* User.savedJobs: user -> list of job ids
  sreq,        \* saveJob requests: slot -> handler state
  sres,        \* saveJob responses: slot -> response sent
  user,        \* User collection: id -> {email, password hash}
  jwtSecret,   \* process.env.JWT_SECRET is set to a non-empty string
  areq,        \* auth requests: slot -> request received / handler state
  ares,        \* auth responses: slot -> response sent, what the chain did
  oreq,        \* poster-only job requests: slot -> handler state
  ores,        \* poster-only job responses: slot -> response sent
  ident,       \* observer: what the request admitted last carried
  account      \* User collection, the rest: id -> reset token, profile lists

communityVars == <<community, joined, notified, creq, cres, run>>
jobVars == <<job, appliedJobs, now, jreq, jres>>
likeVars == <<lreq, lres>>
saveVars == <<savedJobs, sreq, sres>>
\* the state of the handlers specified after the like handlers
authVars == <<user, jwtSecret, areq, ares>>
ownerVars == <<oreq, ores>>
otherVars == <<saveVars, authVars, ownerVars, ident, account>>
vars == <<community, joined, notified, post, creq, cres, run,
          job, appliedJobs, now, jreq, jres, lreq, lres, otherVars>>

\* ------------------------------------------------------------ array helpers
\* array.some(x => x.toString() === id) / MongooseArray.includes(id)
Includes(s, x) == \E i \in DOMAIN s : s[i] = x
IsNot(x, y) == y # x
\* array.filter(x => x.toString() !== id)
Filter(s, x) == SelectSeq(s, LAMBDA y : IsNot(x, y))
Count(s, x) == Cardinality({i \in DOMAIN s : s[i] = x})
\* /^[0-9a-fA-F]{24}$/
IsObjectId(x) == x # BadId /\ x # None

\* ----------------------------------------------------------------- documents
NoCommunity == [exists |-> FALSE, members |-> <<>>, moderators |-> <<>>,
                posts |-> <<>>, v |-> 0]
NoPost == [exists |-> FALSE, community |-> None, author |-> None,
           likes |-> <<>>, v |-> 0]

ReqSlots == 1..MaxReqs
IdleReq == [op |-> None, pc |-> "idle", id |-> None, userId |-> None,
            doc |-> NoCommunity, content |-> FALSE, postId |-> None,
            hasNotifications |-> FALSE]
DoneReq == [IdleReq EXCEPT !.pc = "done"]
NoRes == [op |-> None, id |-> None, userId |-> None, status |-> 0,
          message |-> None]

\* --------------------------------------------------- job and like documents
Jobs == {"j1", "j2", "j3"}
\* applicationDeadline is optional: {} when unset, {date} when set
NoJob == [exists |-> FALSE, postedBy |-> None, applicationDeadline |-> {},
          applicants |-> <<>>, v |-> 0]
IdleJobReq == [op |-> None, pc |-> "idle", id |-> None, userId |-> None,
               doc |-> NoJob]
DoneJobReq == [IdleJobReq EXCEPT !.pc = "done"]
IdleLikeReq == [op |-> None, pc |-> "idle", id |-> None, userId |-> None,
                doc |-> NoPost]
DoneLikeReq == [IdleLikeReq EXCEPT !.pc = "done"]
NoLikeRes == [op |-> None, id |-> None, userId |-> None, status |-> 0,
              message |-> None, likeCount |-> 0]

\* ------------------------------------------------------- saveJob documents
IdleSaveReq == [op |-> None, pc |-> "idle", id |-> None, userId |-> None,
                isSaved |-> FALSE]
DoneSaveReq == [IdleSaveReq EXCEPT !.pc = "done"]
NoSaveRes == [op |-> None, id |-> None, userId |-> None, status |-> 0,
              message |-> None, isSaved |-> FALSE]
NoSaveRequests ==
  /\ savedJobs = [u \in Users |-> <<>>]
  /\ sreq = [r \in ReqSlots |-> IdleSaveReq]
  /\ sres = [r \in ReqSlots |-> NoSaveRes]

\* ---------------------------------------------------------- auth documents
\* one more id than requests, so that User.create always finds a fresh one
UserIds == 1..(MaxReqs + 1)
\* a well-formed id that names no stored user (the user was removed)
RemovedUserId == 0
Emails == {"e1", "e2"}
Passwords == {"pw1", "pw2"}
\* req.body.password when the field is missing
Undefined == "undefined"
\* bcrypt.hash(password, salt)
Hash(p) == <<"bcrypt", p>>
NoUser == [exists |-> FALSE, email |-> None, password |-> <<>>]
\* the store holds the user with id 1, registered with "e1" / "pw1"
SeedUsers ==
  [i \in UserIds |-> IF i = 1
                     THEN [exists |-> TRUE, email |-> "e1",
                           password |-> Hash("pw1")]
                     ELSE NoUser]

\* a credential as it arrives: nothing, the empty string, a string that is
\* no JWT, or a JWT {id, exp} signed with some key
NoToken == [kind |-> "none", id |-> 0, exp |-> 0, key |-> None]
EmptyString == [kind |-> "empty", id |-> 0, exp |-> 0, key |-> None]
Garbage == [kind |-> "garbage", id |-> 0, exp |-> 0, key |-> None]
NoAuthorization == [scheme |-> None, cred |-> NoToken]

\* crypto.createHash("sha256").update(resetToken).digest("hex")
Sha256(t) == <<"sha256", t>>
\* the fields of a user document the auth handlers leave alone: unset fields
\* are <<>> and {}; experience and education hold the _ids of their entries
NoAccount == [resetPasswordToken |-> <<>>, resetPasswordExpire |-> {},
              experience |-> <<>>, education |-> <<>>, v |-> 0]

IdleAuthReq == [op |-> None, pc |-> "idle",
                token |-> NoToken, auth_token |-> NoToken,
                authorization |-> NoAuthorization,
                credential |-> NoToken, userId |-> 0, reqUser |-> 0,
                email |-> None, password |-> None,
                doc |-> NoAccount, resettoken |-> 0]
DoneAuthReq == [IdleAuthReq EXCEPT !.pc = "done"]
\* status 0: no response was sent by the middleware (next() was called)
NoAuthRes == [op |-> None, status |-> 0, message |-> None,
              token |-> NoToken, cookie |-> FALSE, user |-> 0,
              email |-> None, reqUser |-> 0, nextCalls |-> 0,
              handler |-> FALSE, bearerVerifies |-> FALSE, resetToken |-> 0, expires |-> {}]
NoAuthRequests ==
  /\ user = SeedUsers
  /\ jwtSecret = TRUE
  /\ areq = [r \in ReqSlots |-> IdleAuthReq]
  /\ ares = [r \in ReqSlots |-> NoAuthRes]

\* ------------------------------------------- poster-only job request records
\* req.body of updateJob: the fields it sets (None / <<>>: field not sent)
NoBody == [postedBy |-> None, applicationDeadline |-> <<>>]
IdleOwnerReq == [op |-> None, pc |-> "idle", id |-> None, userId |-> None,
                 doc |-> NoJob, status |-> None, user_id |-> None,
                 body |-> NoBody]
DoneOwnerReq == [IdleOwnerReq EXCEPT !.pc = "done"]
NoOwnerRequests ==
  /\ oreq = [r \in ReqSlots |-> IdleOwnerReq]
  /\ ores = [r \in ReqSlots |-> NoRes]
\* the identity a request carries: req.user.id (None without a verified
\* token) and req.body.userId (None when not sent)
NoIdent == [op |-> None, reqUser |-> None, bodyUserId |-> None]
NoOtherRequests ==
  /\ NoSaveRequests /\ NoAuthRequests /\ NoOwnerRequests /\ ident = NoIdent
  /\ account = [i \in UserIds |-> NoAccount]

NoRun == [phase |-> "off", r |-> 0, userId |-> None, id |-> None]

\* the parts of the store a specification does not exercise
NoCommunityRequests ==
  /\ creq = [r \in ReqSlots |-> IdleReq]
  /\ cres = NoRes
  /\ run = NoRun
NoJobRequests ==
  /\ job = [j \in Jobs |-> NoJob]
  /\ appliedJobs = [u \in Users |-> <<>>]
  /\ now = 0
  /\ jreq = [r \in ReqSlots |-> IdleJobReq]
  /\ jres = [r \in ReqSlots |-> NoRes]
NoLikeRequests ==
  /\ lreq = [r \in ReqSlots |-> IdleLikeReq]
  /\ lres = [r \in ReqSlots |-> NoLikeRes]
  /\ NoOtherRequests

\* the document Community.create stores
NewCommunity(u) == [exists |-> TRUE, members |-> <<u>>, moderators |-> <<u>>,
                    posts |-> <<>>, v |-> 0]

\* the store as the server finds it: empty, or holding the community "c1"
\* that its creator "u1" made in an earlier run (createCommunity completed)
InitCommunity ==
  /\ \/ /\ community = [c \in Communities |-> NoCommunity]
        /\ joined = [u \in Users |-> {}]
        /\ notified = [u \in Users |-> {}]
     \/ /\ community = [c \in Communities |->
                          IF c = "c1" THEN NewCommunity("u1") ELSE NoCommunity]
        /\ joined = [u \in Users |-> IF u = "u1" THEN {"c1"} ELSE {}]
        /\ notified = [u \in Users |-> IF u = "u1" THEN {"c1"} ELSE {}]
  /\ post = [p \in Posts |-> NoPost]
  /\ NoCommunityRequests
  /\ NoJobRequests
  /\ NoLikeRequests

\* a request enters in the next free slot
CanStart(r) ==
  /\ creq[r].pc = "idle"
  /\ \A q \in ReqSlots : q < r => creq[q].pc # "idle"

\* res.status(status).json({message}) and the handler returns
Respond(r, op, id, userId, status, message) ==
  /\ creq' = [creq EXCEPT ![r] = DoneReq]
  /\ cres' = [op |-> op, id |-> id, userId |-> userId, status |-> status,
              message |-> message]

\* the handler goes on to its next awaited call
Goto(r, rec) ==
  /\ creq' = [creq EXCEPT ![r] = rec]
  /\ UNCHANGED cres

\* ------------------------------------------------------------ ODM operations
\* doc.array.push(x); await doc.save()
SavePushOverwrite(c, field, x, doc) ==
  [community EXCEPT ![c][field] = doc[field], ![c].v = @ + 1]
SavePush(c, field, x, doc) ==
  [community EXCEPT ![c][field] = Append(@, x), ![c].v = @ + 1]

\* the version the save compares with the stored one
VersionMatches(c, doc) == community[c].exists /\ community[c].v = doc.v

\* $addToSet of the community into both user-side sets
AddToSet(s, u, c) == [s EXCEPT ![u] = @ \cup {c}]
\* $pull of the community out of a user-side set
PullKeeps(s, u, c) == s
Pull(s, u, c) == [s EXCEPT ![u] = @ \ {c}]

\* doc.members = filtered; doc.moderators = filtered; await doc.save()
SaveSet(c, doc) ==
  [community EXCEPT ![c].members = doc.members,
                    ![c].moderators = doc.moderators, ![c].v = @ + 1]

\* the identity a handler behind optionalAuthMiddleware starts from
ReqUsers == Users \cup {None}
BodyUserIds == Users \cup {None, UnknownUser, BadId}
IdParams == Communities \cup {BadId}

\* ------------------------------------------------------------ joinCommunity
\* the membership check and the push on the local document
JoinProceedNoCheck(r, id, uid, doc) ==
  IF uid = None
  THEN Respond(r, "joinCommunity", id, uid, 200, "Authentication required")
  ELSE Goto(r, [IdleReq EXCEPT !.op = "joinCommunity", !.pc = "save",
                  !.id = id, !.userId = uid,
                  !.doc = [doc EXCEPT !.members = Append(@, uid)]])
JoinProceed(r, id, uid, doc) ==
  IF uid = None
  THEN Respond(r, "joinCommunity", id, uid, 200, "Authentication required")
  ELSE IF Includes(doc.members, uid)
  THEN Respond(r, "joinCommunity", id, uid, 200, "Already a member")
  ELSE Goto(r, [IdleReq EXCEPT !.op = "joinCommunity", !.pc = "save",
                  !.id = id, !.userId = uid,
                  !.doc = [doc EXCEPT !.members = Append(@, uid)]])

\* id validation, Community.findById, identity from token or body
JoinReceive(r, id, reqUser, bodyUserId) ==
  /\ CanStart(r)
  /\ IF ~IsObjectId(id)
     THEN Respond(r, "joinCommunity", id, None, 400, "Invalid community ID format")
     ELSE IF ~community[id].exists
     THEN Respond(r, "joinCommunity", id, None, 404, "Community not found")
     ELSE IF reqUser # None
     THEN JoinProceed(r, id, reqUser, community[id])
     ELSE IF bodyUserId # None
     THEN IF ~IsObjectId(bodyUserId)
          THEN Respond(r, "joinCommunity", id, None, 400, "Invalid user ID format in request")
          ELSE Goto(r, [IdleReq EXCEPT !.op = "joinCommunity",
                          !.pc = "findUser", !.id = id,
                          !.userId = bodyUserId, !.doc = community[id]])
     ELSE JoinProceed(r, id, None, community[id])
  /\ UNCHANGED <<community, joined, notified, post>>
JoinFind(r) ==
  \E id \in IdParams, reqUser \in ReqUsers, bodyUserId \in BodyUserIds :
    JoinReceive(r, id, reqUser, bodyUserId)

\* User.findById(req.body.userId)
JoinFindUserTrusting(r) ==
  /\ creq[r].op = "joinCommunity" /\ creq[r].pc = "findUser"
  /\ JoinProceed(r, creq[r].id, creq[r].userId, creq[r].doc)
  /\ UNCHANGED <<community, joined, notified, post>>
JoinFindUser(r) ==
  /\ creq[r].op = "joinCommunity" /\ creq[r].pc = "findUser"
  /\ IF creq[r].userId \in Users
     THEN JoinProceed(r, creq[r].id, creq[r].userId, creq[r].doc)
     ELSE Respond(r, "joinCommunity", creq[r].id, None, 404, "User not found")
  /\ UNCHANGED <<community, joined, notified, post>>

\* community.members.push(userId); await community.save()
JoinSave(r) ==
  /\ creq[r].op = "joinCommunity" /\ creq[r].pc = "save"
  /\ community' = SavePush(creq[r].id, "members", creq[r].userId, creq[r].doc)
  /\ Goto(r, [creq[r] EXCEPT !.pc = "userUpdate", !.doc.v = @ + 1])
  /\ UNCHANGED <<joined, notified, post>>

\* User.findByIdAndUpdate(userId, {$addToSet: {...}}) and the 200 response
JoinUserUpdate(r) ==
  /\ creq[r].op = "joinCommunity" /\ creq[r].pc = "userUpdate"
  /\ joined' = AddToSet(joined, creq[r].userId, creq[r].id)
  /\ notified' = AddToSet(notified, creq[r].userId, creq[r].id)
  /\ Respond(r, "joinCommunity", creq[r].id, creq[r].userId, 200,
             "Joined community successfully")
  /\ UNCHANGED <<community, post>>

\* ----------------------------------------------------------- leaveCommunity
\* the last-moderator condition of the handler
LastModeratorAnyCount(doc, uid) ==
  /\ Includes(doc.moderators, uid)
  /\ Len(doc.moderators) = 1
LastModerator(doc, uid) ==
  /\ Includes(doc.moderators, uid)
  /\ Len(doc.moderators) = 1
  /\ Len(doc.members) > 1

\* the membership check, the moderator check and the two filters
LeaveProceed(r, id, uid, doc) ==
  IF uid = None
  THEN Respond(r, "leaveCommunity", id, uid, 200, "Authentication required")
  ELSE IF ~Includes(doc.members, uid)
  THEN Respond(r, "leaveCommunity", id, uid, 400, "Not a member of this community")
  ELSE IF LastModerator(doc, uid)
  THEN Respond(r, "leaveCommunity", id, uid, 400, "As the only moderator, you cannot leave")
  ELSE Goto(r, [IdleReq EXCEPT !.op = "leaveCommunity", !.pc = "save",
                  !.id = id, !.userId = uid,
                  !.doc = [doc EXCEPT !.members = Filter(@, uid),
                                      !.moderators = Filter(@, uid)]])

\* id validation, Community.findById, identity from token or body
LeaveReceive(r, id, reqUser, bodyUserId) ==
  /\ CanStart(r)
  /\ IF ~IsObjectId(id)
     THEN Respond(r, "leaveCommunity", id, None, 400, "Invalid community ID format")
     ELSE IF ~community[id].exists
     THEN Respond(r, "leaveCommunity", id, None, 404, "Community not found")
     ELSE IF reqUser # None
     THEN LeaveProceed(r, id, reqUser, community[id])
     ELSE IF bodyUserId # None
     THEN IF ~IsObjectId(bodyUserId)
          THEN Respond(r, "leaveCommunity", id, None, 400, "Invalid user ID format in request")
          ELSE Goto(r, [IdleReq EXCEPT !.op = "leaveCommunity",
                          !.pc = "findUser", !.id = id,
                          !.userId = bodyUserId, !.doc = community[id]])
     ELSE LeaveProceed(r, id, None, community[id])
  /\ UNCHANGED <<community, joined, notified, post>>
LeaveFind(r) ==
  \E id \in IdParams, reqUser \in ReqUsers, bodyUserId \in BodyUserIds :
    LeaveReceive(r, id, reqUser, bodyUserId)

\* User.findById(req.body.userId)
LeaveFindUser(r) ==
  /\ creq[r].op = "leaveCommunity" /\ creq[r].pc = "findUser"
  /\ IF creq[r].userId \in Users
     THEN LeaveProceed(r, creq[r].id, creq[r].userId, creq[r].doc)
     ELSE Respond(r, "leaveCommunity", creq[r].id, None, 404, "User not found")
  /\ UNCHANGED <<community, joined, notified, post>>

\* await community.save(): replaces both arrays if the version still matches,
\* throws VersionError (caught, 500) otherwise
LeaveSave(r) ==
  /\ creq[r].op = "leaveCommunity" /\ creq[r].pc = "save"
  /\ IF VersionMatches(creq[r].id, creq[r].doc)
     THEN /\ community' = SaveSet(creq[r].id, creq[r].doc)
          /\ Goto(r, [creq[r] EXCEPT !.pc = "userUpdate", !.doc.v = @ + 1])
     ELSE /\ UNCHANGED community
          /\ Respond(r, "leaveCommunity", creq[r].id, creq[r].userId, 500,
                     "Server error")
  /\ UNCHANGED <<joined, notified, post>>

\* User.findByIdAndUpdate(userId, {$pull: {...}}) and the 200 response
LeaveUserUpdate(r) ==
  /\ creq[r].op = "leaveCommunity" /\ creq[r].pc = "userUpdate"
  /\ joined' = Pull(joined, creq[r].userId, creq[r].id)
  /\ notified' = Pull(notified, creq[r].userId, creq[r].id)
  /\ Respond(r, "leaveCommunity", creq[r].id, creq[r].userId, 200,
             "Left community successfully")
  /\ UNCHANGED <<community, post>>

\* ---------------------------------------------------------- createCommunity
\* Community.findOne({name}); the route is behind authMiddleware
CreateFindOne(r) ==
  /\ CanStart(r)
  /\ \E name \in Communities, reqUser \in Users :
       IF community[name].exists
       THEN Respond(r, "createCommunity", name, reqUser, 400,
                    "A community with this name already exists")
       ELSE Goto(r, [IdleReq EXCEPT !.op = "createCommunity", !.pc = "create",
                       !.id = name, !.userId = reqUser])
  /\ UNCHANGED <<community, joined, notified, post>>

\* Community.create({... moderators: [id], members: [id]}); the unique index
\* on name rejects a second insert (caught, 500)
CreateInsert(r) ==
  /\ creq[r].op = "createCommunity" /\ creq[r].pc = "create"
  /\ IF community[creq[r].id].exists
     THEN /\ UNCHANGED community
          /\ Respond(r, "createCommunity", creq[r].id, creq[r].userId, 500,
                     "Server error")
     ELSE /\ community' = [community EXCEPT
                             ![creq[r].id] = NewCommunity(creq[r].userId)]
          /\ Goto(r, [creq[r] EXCEPT !.pc = "userUpdate",
                        !.doc = NewCommunity(creq[r].userId)])
  /\ UNCHANGED <<joined, notified, post>>

\* User.findByIdAndUpdate(req.user.id, {$addToSet: {...}}) and the 201
CreateUserUpdate(r) ==
  /\ creq[r].op = "createCommunity" /\ creq[r].pc = "userUpdate"
  /\ joined' = AddToSet(joined, creq[r].userId, creq[r].id)
  /\ notified' = AddToSet(notified, creq[r].userId, creq[r].id)
  /\ Respond(r, "createCommunity", creq[r].id, creq[r].userId, 201, "created")
  /\ UNCHANGED <<community, post>>

\* --------------------------------------------------------------- createPost
\* post ids not yet given out; one is reserved per request admitted
FreePosts == {p \in Posts : post[p] = NoPost}
PostsInFlight == {q \in ReqSlots : creq[q].op = "createPost"}

\* the author joins the community first when not yet a member
PostProceed(r, id, author, doc, content) ==
  IF author # None /\ ~Includes(doc.members, author)
  THEN Goto(r, [IdleReq EXCEPT !.op = "createPost", !.pc = "userUpdate",
                  !.id = id, !.userId = author, !.content = content,
                  !.doc = [doc EXCEPT !.members = Append(@, author)]])
  ELSE Goto(r, [IdleReq EXCEPT !.op = "createPost", !.pc = "createPost",
                  !.id = id, !.userId = author, !.content = content,
                  !.doc = doc])

\* Community.findById (a malformed id is a CastError, caught as 404), author
\* from token or body
PostReceive(r, id, reqUser, bodyUserId, content) ==
  /\ CanStart(r)
  /\ Cardinality(PostsInFlight) < Cardinality(FreePosts)
  /\ IF ~IsObjectId(id) \/ ~community[id].exists
     THEN Respond(r, "createPost", id, None, 404, "Community not found")
     ELSE IF reqUser # None
     THEN PostProceed(r, id, reqUser, community[id], content)
     ELSE IF bodyUserId # None
     THEN Goto(r, [IdleReq EXCEPT !.op = "createPost", !.pc = "findUser",
                     !.id = id, !.userId = bodyUserId, !.content = content,
                     !.doc = community[id]])
     ELSE PostProceed(r, id, None, community[id], content)
  /\ UNCHANGED <<community, joined, notified, post>>
PostFind(r) ==
  \E id \in IdParams, reqUser \in ReqUsers, bodyUserId \in BodyUserIds,
     content \in BOOLEAN :
    PostReceive(r, id, reqUser, bodyUserId, content)

\* User.findById(req.body.userId): an unknown user posts anonymously, a
\* malformed id is a CastError (caught, 404)
PostFindUser(r) ==
  /\ creq[r].op = "createPost" /\ creq[r].pc = "findUser"
  /\ IF ~IsObjectId(creq[r].userId)
     THEN Respond(r, "createPost", creq[r].id, None, 404, "Community not found")
     ELSE PostProceed(r, creq[r].id,
                      IF creq[r].userId \in Users THEN creq[r].userId ELSE None,
                      creq[r].doc, creq[r].content)
  /\ UNCHANGED <<community, joined, notified, post>>

\* User.findByIdAndUpdate(author, {$addToSet: {...}})
PostUserUpdate(r) ==
  /\ creq[r].op = "createPost" /\ creq[r].pc = "userUpdate"
  /\ joined' = AddToSet(joined, creq[r].userId, creq[r].id)
  /\ notified' = AddToSet(notified, creq[r].userId, creq[r].id)
  /\ Goto(r, [creq[r] EXCEPT !.pc = "saveMembers"])
  /\ UNCHANGED <<community, post>>

\* community.members.push(author) ...; await community.save()
PostSaveMembers(r) ==
  /\ creq[r].op = "createPost" /\ creq[r].pc = "saveMembers"
  /\ community' = SavePush(creq[r].id, "members", creq[r].userId, creq[r].doc)
  /\ Goto(r, [creq[r] EXCEPT !.pc = "createPost", !.doc.v = @ + 1])
  /\ UNCHANGED <<joined, notified, post>>

\* the document Post.create stores
NewPost(c, author) == [exists |-> TRUE, community |-> c, author |-> author,
                       likes |-> <<>>, v |-> 0]

\* Post.create(postData): content is required (ValidationError, caught, 500)
PostCreate(r) ==
  /\ creq[r].op = "createPost" /\ creq[r].pc = "createPost"
  /\ IF ~creq[r].content
     THEN /\ UNCHANGED post
          /\ Respond(r, "createPost", creq[r].id, creq[r].userId, 500,
                     "Server error")
     ELSE \E p \in FreePosts :
          /\ post' = [post EXCEPT ![p] = NewPost(creq[r].id, creq[r].userId)]
          /\ Goto(r, [creq[r] EXCEPT !.pc = "savePosts", !.postId = p,
                        !.doc.posts = Append(@, p)])
  /\ UNCHANGED <<community, joined, notified>>

\* community.posts.push(post._id); await community.save(); the 201
PostSavePosts(r) ==
  /\ creq[r].op = "createPost" /\ creq[r].pc = "savePosts"
  /\ community' = SavePush(creq[r].id, "posts", creq[r].postId, creq[r].doc)
  /\ Respond(r, "createPost", creq[r].id, creq[r].userId, 201, "created")
  /\ UNCHANGED <<joined, notified, post>>

\* ------------------------------------------------- community specification
\* Observer of the scenario "join(u,c) by a non-member, then leave(u,c), no
\* step of any other request in between".  It reads the step just taken by
\* request r and never influences the handlers.
\*   joining: the join of a non-member is under way
\*   joined : that join answered "Joined community successfully"
\*   leaving: the leave of the same user and community is under way
\*   left   : that leave has answered
StartsJoinOfNonMember(r) ==
  /\ creq[r].pc = "idle"
  /\ creq'[r].op = "joinCommunity"
  /\ creq'[r].userId \in Users
  /\ ~Includes(community[creq'[r].id].members, creq'[r].userId)
StartsLeaveOf(r, u, id) ==
  /\ creq[r].pc = "idle"
  /\ \/ creq'[r].op = "leaveCommunity" /\ creq'[r].userId = u /\ creq'[r].id = id
     \/ /\ creq'[r].pc = "done" /\ cres'.op = "leaveCommunity"
        /\ cres'.userId = u /\ cres'.id = id
Observe(r) ==
  IF run.phase = "joining" /\ run.r = r
  THEN IF creq'[r].pc # "done" THEN run
       ELSE IF cres'.message = "Joined community successfully"
       THEN [run EXCEPT !.phase = "joined"] ELSE NoRun
  ELSE IF run.phase = "joined" /\ StartsLeaveOf(r, run.userId, run.id)
  THEN [run EXCEPT !.r = r,
          !.phase = IF creq'[r].pc = "done" THEN "left" ELSE "leaving"]
  ELSE IF run.phase = "leaving" /\ run.r = r
  THEN [run EXCEPT !.phase = IF creq'[r].pc = "done" THEN "left" ELSE "leaving"]
  ELSE IF StartsJoinOfNonMember(r)
  THEN [phase |-> "joining", r |-> r, userId |-> creq'[r].userId,
        id |-> creq'[r].id]
  ELSE NoRun

Observed(r) ==
  run' = Observe(r) /\ UNCHANGED <<jobVars, likeVars, otherVars>>

NextCommunity ==
  \/ \E r \in ReqSlots : JoinFind(r) /\ Observed(r)
  \/ \E r \in ReqSlots : JoinFindUser(r) /\ Observed(r)
  \/ \E r \in ReqSlots : JoinSave(r) /\ Observed(r)
  \/ \E r \in ReqSlots : JoinUserUpdate(r) /\ Observed(r)
  \/ \E r \in ReqSlots : LeaveFind(r) /\ Observed(r)
  \/ \E r \in ReqSlots : LeaveFindUser(r) /\ Observed(r)
  \/ \E r \in ReqSlots : LeaveSave(r) /\ Observed(r)
  \/ \E r \in ReqSlots : LeaveUserUpdate(r) /\ Observed(r)
  \/ \E r \in ReqSlots : CreateFindOne(r) /\ Observed(r)
  \/ \E r \in ReqSlots : CreateInsert(r) /\ Observed(r)
  \/ \E r \in ReqSlots : CreateUserUpdate(r) /\ Observed(r)
  \/ \E r \in ReqSlots : PostFind(r) /\ Observed(r)
  \/ \E r \in ReqSlots : PostFindUser(r) /\ Observed(r)
  \/ \E r \in ReqSlots : PostUserUpdate(r) /\ Observed(r)
  \/ \E r \in ReqSlots : PostSaveMembers(r) /\ Observed(r)
  \/ \E r \in ReqSlots : PostCreate(r) /\ Observed(r)
  \/ \E r \in ReqSlots : PostSavePosts(r) /\ Observed(r)

CommunitySpec == InitCommunity /\ [][NextCommunity]_vars

\* ------------------------------------------------------- community claims
InFlight(r) == creq[r].pc \notin {"idle", "done"}
Quiescent == \A r \in ReqSlots : ~InFlight(r)
MemberSet(doc) == {doc.members[i] : i \in DOMAIN doc.members}
IsMember(u, c) == community[c].exists /\ Includes(community[c].members, u)
StoreUnchanged == UNCHANGED <<community, joined, notified, post>>

\* C1: whenever no request is in flight, u is in c.members exactly when c is
\* in u.joinedCommunities, for every user u and community c.
C1_MembershipMirrored ==
  Quiescent =>
    \A u \in Users, c \in Communities : IsMember(u, c) <=> c \in joined[u]

\* C2: a community with more than one member has at least one moderator.
C2_ModeratorRetained ==
  \A c \in Communities :
    (community[c].exists /\ Cardinality(MemberSet(community[c])) > 1)
      => Len(community[c].moderators) >= 1

\* C3: after join(u,c) by a non-member succeeded and leave(u,c) followed with
\* no step of another request in between, u is in neither c.members nor
\* c.moderators and c is in neither u.joinedCommunities nor
\* u.notifiedCommunities.
C3_JoinThenLeave ==
  run.phase = "left" =>
    /\ ~Includes(community[run.id].members, run.userId)
    /\ ~Includes(community[run.id].moderators, run.userId)
    /\ run.id \notin joined[run.userId]
    /\ run.id \notin notified[run.userId]
C3_Witness ==
  /\ run.phase = "left"
  /\ cres.op = "leaveCommunity" /\ cres.status = 200
  /\ cres.userId = run.userId /\ cres.id = run.id

\* the step in which request r, of handler op, runs its checks on the
\* community it read: from the first step (token identity) or from the user
\* lookup (body identity) to the response or to the save
ChecksIn(r, op) ==
  /\ creq[r].pc \in {"idle", "findUser"}
  /\ \/ creq'[r].pc = "save" /\ creq'[r].op = op
     \/ creq'[r].pc = "done" /\ cres'.op = op
\* the identity and the community of that step, and the document it checks
ActorOf(r) == IF creq'[r].pc = "done" THEN cres'.userId ELSE creq'[r].userId
TargetOf(r) == IF creq'[r].pc = "done" THEN cres'.id ELSE creq'[r].id
ReadOf(r) == IF creq[r].pc = "idle" THEN community[TargetOf(r)] ELSE creq[r].doc
Answers(r, status) == creq'[r].pc = "done" /\ cres'.status = status

\* C4: a leave by a member who is a moderator is answered 400 exactly when
\* the community read has exactly one moderator and more than one member;
\* that answer leaves members, moderators and the user's sets unchanged, and
\* a leave that passed the check is never answered 400.
C4_LastModeratorStep(r) ==
  /\ ( /\ ChecksIn(r, "leaveCommunity")
       /\ ActorOf(r) \in Users
       /\ Includes(ReadOf(r).members, ActorOf(r))
       /\ Includes(ReadOf(r).moderators, ActorOf(r)) )
     => /\ Answers(r, 400) <=>
             ( /\ Len(ReadOf(r).moderators) = 1
               /\ Cardinality(MemberSet(ReadOf(r))) > 1 )
        /\ Answers(r, 400) => StoreUnchanged
        /\ ~Answers(r, 400) => creq'[r].pc = "save"
  /\ ( /\ creq[r].op = "leaveCommunity"
       /\ creq[r].pc \in {"save", "userUpdate"}
       /\ creq'[r].pc = "done" )
     => cres'.status \in {200, 500}
C4_LastModerator == [][\A r \in ReqSlots : C4_LastModeratorStep(r)]_vars
C4_Witness ==
  /\ cres.op = "leaveCommunity" /\ cres.status = 400
  /\ cres.message = "As the only moderator, you cannot leave"
  /\ Includes(community[cres.id].moderators, cres.userId)
  /\ Cardinality(MemberSet(community[cres.id])) > 1

\* C5: a join by a user who is in the members read is answered 200 and
\* writes nothing; a leave by a user who is not in the members read is
\* answered 400 and writes nothing.
C5_NoOpStep(r) ==
  /\ ( /\ ChecksIn(r, "joinCommunity")
       /\ ActorOf(r) \in Users
       /\ Includes(ReadOf(r).members, ActorOf(r)) )
     => Answers(r, 200) /\ StoreUnchanged
  /\ ( /\ ChecksIn(r, "leaveCommunity")
       /\ ActorOf(r) \in Users
       /\ ~Includes(ReadOf(r).members, ActorOf(r)) )
     => Answers(r, 400) /\ StoreUnchanged
C5_NoOp == [][\A r \in ReqSlots : C5_NoOpStep(r)]_vars
C5_Witness ==
  /\ cres.op = "leaveCommunity" /\ cres.status = 400
  /\ cres.message = "Not a member of this community"
  /\ \E u \in Users, c \in Communities :
       IsMember(u, c) /\ c \in joined[u] /\ cres.id = c /\ cres.userId # u

\* C6: the save of a join appends the user to the stored members whatever
\* they hold by then and never fails, so two joins of one user that both
\* read before either saved leave the user in the list twice.
C6_PushStep(r) ==
  (creq[r].op = "joinCommunity" /\ creq[r].pc = "save" /\ creq'[r] # creq[r])
    => /\ creq'[r].pc = "userUpdate"
       /\ Count(community'[creq[r].id].members, creq[r].userId)
            = Count(community[creq[r].id].members, creq[r].userId) + 1
C6_ConcurrentJoinsBothPush == [][\A r \in ReqSlots : C6_PushStep(r)]_vars
C6_Witness ==
  \E r1, r2 \in ReqSlots :
    /\ r1 # r2
    /\ creq[r1].op = "joinCommunity" /\ creq[r1].pc = "userUpdate"
    /\ creq[r2].op = "joinCommunity" /\ creq[r2].pc = "userUpdate"
    /\ creq[r1].userId = creq[r2].userId /\ creq[r1].id = creq[r2].id
    /\ Count(creq[r1].doc.members, creq[r1].userId) = 1
    /\ Count(creq[r2].doc.members, creq[r2].userId) = 1
    /\ Count(community[creq[r1].id].members, creq[r1].userId) = 2

\* ================================================================== jobs
\* The store holds job "j1" without a deadline and job "j2" with deadline 1,
\* both posted by "u1" (createJob completed); "j3" names no job.
PostedJob(deadline) == [exists |-> TRUE, postedBy |-> "u1",
                        applicationDeadline |-> deadline,
                        applicants |-> <<>>, v |-> 0]
InitJob ==
  /\ job = [j \in Jobs |-> IF j = "j1" THEN PostedJob({})
                           ELSE IF j = "j2" THEN PostedJob({1}) ELSE NoJob]
  /\ appliedJobs = [u \in Users |-> <<>>]
  /\ now = 0
  /\ jreq = [r \in ReqSlots |-> IdleJobReq]
  /\ jres = [r \in ReqSlots |-> NoRes]
  /\ community = [c \in Communities |-> NoCommunity]
  /\ joined = [u \in Users |-> {}]
  /\ notified = [u \in Users |-> {}]
  /\ post = [p \in Posts |-> NoPost]
  /\ NoCommunityRequests
  /\ NoLikeRequests

CanStartJob(r) ==
  /\ jreq[r].pc = "idle"
  /\ \A q \in ReqSlots : q < r => jreq[q].pc # "idle"

RespondJob(r, op, id, userId, status, message) ==
  /\ jreq' = [jreq EXCEPT ![r] = DoneJobReq]
  /\ jres' = [jres EXCEPT ![r] = [op |-> op, id |-> id, userId |-> userId,
                                   status |-> status, message |-> message]]

GotoJob(r, rec) ==
  /\ jreq' = [jreq EXCEPT ![r] = rec]
  /\ UNCHANGED jres

\* job.applicants.some(app => app.user.toString() === req.user.id)
HasApplicant(applicants, u) == \E i \in DOMAIN applicants : applicants[i].user = u
\* user.appliedJobs holds an entry for the job
HasApplied(applied, j) == \E i \in DOMAIN applied : applied[i].job = j
CountApplicant(applicants, u) ==
  Cardinality({i \in DOMAIN applicants : applicants[i].user = u})
CountApplied(applied, j) ==
  Cardinality({i \in DOMAIN applied : applied[i].job = j})

\* job.applicationDeadline && new Date(job.applicationDeadline) < new Date()
DeadlinePassedNever(doc, t) == FALSE
DeadlinePassed(doc, t) == \E d \in doc.applicationDeadline : d < t

\* the already-applied check on the job read
AlreadyApplied(doc, u) == HasApplicant(doc.applicants, u)

\* job.applicants.unshift({user, status: "applied", ...}) on the local copy
Unshift(doc, u) ==
  [doc EXCEPT !.applicants = <<[user |-> u, status |-> "applied"]>> \o @]

\* Job.findById (a malformed id is a CastError, caught as 404), the two
\* checks, the unshift; the route is behind authMiddleware
ApplyFind(r) ==
  /\ CanStartJob(r)
  /\ \E id \in Jobs \cup {BadId}, reqUser \in Users :
       IF ~IsObjectId(id) \/ ~job[id].exists
       THEN RespondJob(r, "applyForJob", id, reqUser, 404, "Job not found")
       ELSE IF AlreadyApplied(job[id], reqUser)
       THEN RespondJob(r, "applyForJob", id, reqUser, 400,
                       "Already applied for this job")
       ELSE IF DeadlinePassed(job[id], now)
       THEN RespondJob(r, "applyForJob", id, reqUser, 400,
                       "Application deadline has passed")
       ELSE GotoJob(r, [IdleJobReq EXCEPT !.op = "applyForJob", !.pc = "save",
                          !.id = id, !.userId = reqUser,
                          !.doc = Unshift(job[id], reqUser)])
  /\ UNCHANGED <<job, appliedJobs, now>>

\* await job.save() after unshift: the whole applicants array is written if
\* the stored version is the one read, VersionError (caught, 500) otherwise
JobSaveSetAppend(j, doc) ==
  [job EXCEPT ![j].applicants = <<doc.applicants[1]>> \o @, ![j].v = @ + 1]
JobSaveSet(j, doc) ==
  IF job[j].exists /\ job[j].v = doc.v
  THEN [job EXCEPT ![j].applicants = doc.applicants, ![j].v = @ + 1]
  ELSE job

ApplySave(r) ==
  /\ jreq[r].op = "applyForJob" /\ jreq[r].pc = "save"
  /\ job' = JobSaveSet(jreq[r].id, jreq[r].doc)
  /\ IF job' # job
     THEN GotoJob(r, [jreq[r] EXCEPT !.pc = "userUpdate", !.doc.v = @ + 1])
     ELSE RespondJob(r, "applyForJob", jreq[r].id, jreq[r].userId, 500,
                     "Server error")
  /\ UNCHANGED <<appliedJobs, now>>

\* User.findByIdAndUpdate(req.user.id, {$push: {appliedJobs: {...}}})
PushAppliedNothing(applied, u, j) == applied
PushApplied(applied, u, j) ==
  [applied EXCEPT ![u] = Append(@, [job |-> j, status |-> "applied"])]

ApplyUserUpdate(r) ==
  /\ jreq[r].op = "applyForJob" /\ jreq[r].pc = "userUpdate"
  /\ appliedJobs' = PushApplied(appliedJobs, jreq[r].userId, jreq[r].id)
  /\ RespondJob(r, "applyForJob", jreq[r].id, jreq[r].userId, 200,
                "Applied for job successfully")
  /\ UNCHANGED <<job, now>>

\* time passes
Tick ==
  /\ now < MaxTime
  /\ now' = now + 1
  /\ UNCHANGED <<job, appliedJobs, jreq, jres>>

OtherThanJob == UNCHANGED <<communityVars, post, likeVars, otherVars>>

NextJob ==
  \/ \E r \in ReqSlots : ApplyFind(r) /\ OtherThanJob
  \/ \E r \in ReqSlots : ApplySave(r) /\ OtherThanJob
  \/ \E r \in ReqSlots : ApplyUserUpdate(r) /\ OtherThanJob
  \/ Tick /\ OtherThanJob

JobSpec == InitJob /\ [][NextJob]_vars

\* --------------------------------------------------------------- job claims
\* C7: each user appears at most once in the applicants of any job.
C7_ApplicantOnce ==
  \A j \in Jobs, u \in Users : CountApplicant(job[j].applicants, u) <= 1
\* two applications of one user to one job that both read the job before
\* either saved: the first save is stored, the second one is refused
C7_Witness ==
  \E r1, r2 \in ReqSlots :
    /\ jres[r1].op = "applyForJob" /\ jres[r1].status = 500
    /\ jreq[r2].op = "applyForJob" /\ jreq[r2].pc = "userUpdate"
    /\ jreq[r2].id = jres[r1].id /\ jreq[r2].userId = jres[r1].userId
    /\ CountApplicant(job[jres[r1].id].applicants, jres[r1].userId) = 1

\* C8: an application by a caller who is among the applicants read, or on a
\* job whose deadline is set and earlier than the current time, is answered
\* 400 and leaves Job.applicants and User.appliedJobs unchanged.
AppliesIn(r) == jreq[r].pc = "idle" /\ jreq'[r].pc # "idle"
ApplicantOf(r) ==
  IF jreq'[r].pc = "done" THEN jres'[r].userId ELSE jreq'[r].userId
JobOf(r) == IF jreq'[r].pc = "done" THEN jres'[r].id ELSE jreq'[r].id
C8_RejectStep(r) ==
  ( /\ AppliesIn(r)
    /\ JobOf(r) \in Jobs
    /\ job[JobOf(r)].exists
    /\ \/ HasApplicant(job[JobOf(r)].applicants, ApplicantOf(r))
       \/ \E d \in job[JobOf(r)].applicationDeadline : d < now )
  => /\ jreq'[r].pc = "done"
     /\ jres'[r].status = 400
     /\ UNCHANGED <<job, appliedJobs>>
C8_Rejected == [][\A r \in ReqSlots : C8_RejectStep(r)]_vars
C8_Witness ==
  \E r1, r2 \in ReqSlots :
    /\ jres[r1].status = 400
    /\ jres[r1].message = "Already applied for this job"
    /\ HasApplicant(job[jres[r1].id].applicants, jres[r1].userId)
    /\ jres[r2].status = 400
    /\ jres[r2].message = "Application deadline has passed"
    /\ \E d \in job[jres[r2].id].applicationDeadline : d < now
    /\ ~HasApplicant(job[jres[r2].id].applicants, jres[r2].userId)

\* C9: the save of a successful application puts exactly one entry
\* {user, "applied"} in front of the applicants and changes no other entry;
\* its user update appends exactly one entry {job, "applied"} to the caller's
\* appliedJobs and changes no other user; when the 200 is sent the caller
\* is once in the job's applicants and the job once in the caller's
\* appliedJobs.
C9_ApplyStep(r) ==
  /\ ( jreq[r].op = "applyForJob" /\ jreq[r].pc = "save"
       /\ jreq'[r].pc = "userUpdate" )
     => /\ job'[jreq[r].id].applicants =
             <<[user |-> jreq[r].userId, status |-> "applied"]>>
               \o job[jreq[r].id].applicants
        /\ \A j \in Jobs \ {jreq[r].id} : job'[j] = job[j]
        /\ appliedJobs' = appliedJobs
  /\ ( jreq[r].op = "applyForJob" /\ jreq[r].pc = "userUpdate"
       /\ jreq'[r].pc = "done" )
     => /\ jres'[r].status = 200
        /\ appliedJobs'[jreq[r].userId] =
             Append(appliedJobs[jreq[r].userId],
                    [job |-> jreq[r].id, status |-> "applied"])
        /\ \A u \in Users \ {jreq[r].userId} : appliedJobs'[u] = appliedJobs[u]
        /\ job' = job
        /\ CountApplicant(job'[jreq[r].id].applicants, jreq[r].userId) = 1
        /\ CountApplied(appliedJobs'[jreq[r].userId], jreq[r].id) = 1
  /\ ( jreq'[r].pc = "done" /\ jreq[r].pc # "done" /\ jres'[r].status = 200 )
     => jreq[r].pc = "userUpdate"
C9_ApplyAddsBoth == [][\A r \in ReqSlots : C9_ApplyStep(r)]_vars
C9_Witness ==
  \E r \in ReqSlots, u1, u2 \in Users :
    /\ u1 # u2
    /\ jres[r].op = "applyForJob" /\ jres[r].status = 200
    /\ jres[r].userId = u2
    /\ job[jres[r].id].applicants = <<[user |-> u2, status |-> "applied"],
                                      [user |-> u1, status |-> "applied"]>>
    /\ HasApplied(appliedJobs[u1], jres[r].id)
    /\ HasApplied(appliedJobs[u2], jres[r].id)

\* ================================================================= likes
\* The store holds community "c1" created by "u1" and post "p1" that "u1"
\* wrote in it (createCommunity and createPost completed).
InitLike ==
  /\ community = [c \in Communities |->
                    IF c = "c1"
                    THEN [NewCommunity("u1") EXCEPT !.posts = <<"p1">>, !.v = 1]
                    ELSE NoCommunity]
  /\ joined = [u \in Users |-> IF u = "u1" THEN {"c1"} ELSE {}]
  /\ notified = [u \in Users |-> IF u = "u1" THEN {"c1"} ELSE {}]
  /\ post = [p \in Posts |-> IF p = "p1" THEN NewPost("c1", "u1") ELSE NoPost]
  /\ lreq = [r \in ReqSlots |-> IdleLikeReq]
  /\ lres = [r \in ReqSlots |-> NoLikeRes]
  /\ NoCommunityRequests
  /\ NoJobRequests
  /\ NoOtherRequests

CanStartLike(r) ==
  /\ lreq[r].pc = "idle"
  /\ \A q \in ReqSlots : q < r => lreq[q].pc # "idle"

RespondLike(r, op, id, userId, status, message, likeCount) ==
  /\ lreq' = [lreq EXCEPT ![r] = DoneLikeReq]
  /\ lres' = [lres EXCEPT ![r] =
                [op |-> op, id |-> id, userId |-> userId, status |-> status,
                 message |-> message, likeCount |-> likeCount]]

GotoLike(r, rec) ==
  /\ lreq' = [lreq EXCEPT ![r] = rec]
  /\ UNCHANGED lres

PostExists(id) == id \in Posts /\ post[id].exists
PostIdParams == Posts \cup {UnknownPost, BadId}

\* ------------------------------------------------------------------ likePost
\* the already-liked check and the push on the local document
LikeProceed(r, id, uid, doc) ==
  IF uid = None
  THEN RespondLike(r, "likePost", id, uid, 200,
                   "Authentication required to like posts", 0)
  ELSE IF Includes(doc.likes, uid)
  THEN RespondLike(r, "likePost", id, uid, 400, "Post already liked", 0)
  ELSE GotoLike(r, [IdleLikeReq EXCEPT !.op = "likePost", !.pc = "save",
                      !.id = id, !.userId = uid,
                      !.doc = [doc EXCEPT !.likes = Append(@, uid)]])

\* Post.findById (a malformed id is a CastError, caught as 404), identity
\* from token or body
LikeReceive(r, id, reqUser, bodyUserId) ==
  /\ CanStartLike(r)
  /\ IF ~IsObjectId(id) \/ ~PostExists(id)
     THEN RespondLike(r, "likePost", id, None, 404, "Post not found", 0)
     ELSE IF reqUser # None
     THEN LikeProceed(r, id, reqUser, post[id])
     ELSE IF bodyUserId # None
     THEN GotoLike(r, [IdleLikeReq EXCEPT !.op = "likePost",
                         !.pc = "findUser", !.id = id,
                         !.userId = bodyUserId, !.doc = post[id]])
     ELSE LikeProceed(r, id, None, post[id])
  /\ UNCHANGED post
LikeFind(r) ==
  \E id \in PostIdParams, reqUser \in ReqUsers, bodyUserId \in BodyUserIds :
    LikeReceive(r, id, reqUser, bodyUserId)

\* User.findById(req.body.userId): an unknown user is no identity, a
\* malformed id is a CastError (caught, 404)
LikeFindUser(r) ==
  /\ lreq[r].op = "likePost" /\ lreq[r].pc = "findUser"
  /\ IF ~IsObjectId(lreq[r].userId)
     THEN RespondLike(r, "likePost", lreq[r].id, None, 404, "Post not found", 0)
     ELSE LikeProceed(r, lreq[r].id,
                      IF lreq[r].userId \in Users THEN lreq[r].userId ELSE None,
                      lreq[r].doc)
  /\ UNCHANGED post

\* post.likes.push(userId); await post.save(); likeCount is the local length
LikeSave(r) ==
  /\ lreq[r].op = "likePost" /\ lreq[r].pc = "save"
  /\ post' = [post EXCEPT ![lreq[r].id].likes = Append(@, lreq[r].userId),
                          ![lreq[r].id].v = @ + 1]
  /\ RespondLike(r, "likePost", lreq[r].id, lreq[r].userId, 200,
                 "Post liked successfully", Len(lreq[r].doc.likes))

\* ---------------------------------------------------------------- unlikePost
\* the not-liked check and the filter on the local document
UnlikeProceedNoCheck(r, id, uid, doc) ==
  IF uid = None
  THEN RespondLike(r, "unlikePost", id, uid, 200,
                   "Authentication required to unlike posts", 0)
  ELSE GotoLike(r, [IdleLikeReq EXCEPT !.op = "unlikePost", !.pc = "save",
                      !.id = id, !.userId = uid,
                      !.doc = [doc EXCEPT !.likes = Filter(@, uid)]])
UnlikeProceed(r, id, uid, doc) ==
  IF uid = None
  THEN RespondLike(r, "unlikePost", id, uid, 200,
                   "Authentication required to unlike posts", 0)
  ELSE IF ~Includes(doc.likes, uid)
  THEN RespondLike(r, "unlikePost", id, uid, 400, "Post not liked yet", 0)
  ELSE GotoLike(r, [IdleLikeReq EXCEPT !.op = "unlikePost", !.pc = "save",
                      !.id = id, !.userId = uid,
                      !.doc = [doc EXCEPT !.likes = Filter(@, uid)]])

UnlikeReceive(r, id, reqUser, bodyUserId) ==
  /\ CanStartLike(r)
  /\ IF ~IsObjectId(id) \/ ~PostExists(id)
     THEN RespondLike(r, "unlikePost", id, None, 404, "Post not found", 0)
     ELSE IF reqUser # None
     THEN UnlikeProceed(r, id, reqUser, post[id])
     ELSE IF bodyUserId # None
     THEN GotoLike(r, [IdleLikeReq EXCEPT !.op = "unlikePost",
                         !.pc = "findUser", !.id = id,
                         !.userId = bodyUserId, !.doc = post[id]])
     ELSE UnlikeProceed(r, id, None, post[id])
  /\ UNCHANGED post
UnlikeFind(r) ==
  \E id \in PostIdParams, reqUser \in ReqUsers, bodyUserId \in BodyUserIds :
    UnlikeReceive(r, id, reqUser, bodyUserId)

UnlikeFindUser(r) ==
  /\ lreq[r].op = "unlikePost" /\ lreq[r].pc = "findUser"
  /\ IF ~IsObjectId(lreq[r].userId)
     THEN RespondLike(r, "unlikePost", lreq[r].id, None, 404, "Post not found", 0)
     ELSE UnlikeProceed(r, lreq[r].id,
                        IF lreq[r].userId \in Users THEN lreq[r].userId ELSE None,
                        lreq[r].doc)
  /\ UNCHANGED post

\* post.likes = filtered; await post.save(): the array is replaced if the
\* stored version is the one read, VersionError (caught, 500) otherwise
UnlikeSave(r) ==
  /\ lreq[r].op = "unlikePost" /\ lreq[r].pc = "save"
  /\ IF post[lreq[r].id].exists /\ post[lreq[r].id].v = lreq[r].doc.v
     THEN /\ post' = [post EXCEPT ![lreq[r].id].likes = lreq[r].doc.likes,
                                  ![lreq[r].id].v = @ + 1]
          /\ RespondLike(r, "unlikePost", lreq[r].id, lreq[r].userId, 200,
                         "Post unliked successfully", Len(lreq[r].doc.likes))
     ELSE /\ UNCHANGED post
          /\ RespondLike(r, "unlikePost", lreq[r].id, lreq[r].userId, 500,
                         "Server error", 0)

OtherThanLike == UNCHANGED <<communityVars, jobVars, otherVars>>

NextLike ==
  \/ \E r \in ReqSlots : LikeFind(r) /\ OtherThanLike
  \/ \E r \in ReqSlots : LikeFindUser(r) /\ OtherThanLike
  \/ \E r \in ReqSlots : LikeSave(r) /\ OtherThanLike
  \/ \E r \in ReqSlots : UnlikeFind(r) /\ OtherThanLike
  \/ \E r \in ReqSlots : UnlikeFindUser(r) /\ OtherThanLike
  \/ \E r \in ReqSlots : UnlikeSave(r) /\ OtherThanLike

LikeSpec == InitLike /\ [][NextLike]_vars

\* -------------------------------------------------------------- like claims
\* C10: each user appears at most once in the likes of any post.
C10_LikedOnce ==
  \A p \in Posts, u \in Users : Count(post[p].likes, u) <= 1

\* ------------------------------------------------- likes, one request at a time
\* a like/unlike request is between its first and its last step
LikeInFlight == \E r \in ReqSlots : lreq[r].pc \notin {"idle", "done"}
\* a request is admitted only when no other one is being handled
OneLikeAtATime ==
  \A r \in ReqSlots :
    (lreq[r].pc = "idle" /\ lreq'[r].pc # "idle") => ~LikeInFlight

NextLikeSeq == NextLike /\ OneLikeAtATime

LikeSeqSpec == InitLike /\ [][NextLikeSeq]_vars

\* C11: with requests run one at a time, a likePost by a user who is in
\* Post.likes is answered 400 and a likePost by a user who is not is answered
\* 200 with likeCount = previous count + 1 and the user appended; an
\* unlikePost by a user who is not in Post.likes is answered 400 and one by a
\* user who is in it is answered 200 with likeCount = previous count - 1 and
\* the user removed; a 400 leaves the likes unchanged.
LikeAnswered(r) == lreq[r].pc # "done" /\ lreq'[r].pc = "done"
C11_LikeStep(r) ==
  ( LikeAnswered(r) /\ lres'[r].userId \in Users )
  => LET p == lres'[r].id
         u == lres'[r].userId
         before == post[p].likes
     IN /\ lres'[r].op = "likePost" =>
             IF Includes(before, u)
             THEN lres'[r].status = 400 /\ post' = post
             ELSE /\ lres'[r].status = 200
                  /\ lres'[r].likeCount = Len(before) + 1
                  /\ post'[p].likes = Append(before, u)
        /\ lres'[r].op = "unlikePost" =>
             IF ~Includes(before, u)
             THEN lres'[r].status = 400 /\ post' = post
             ELSE /\ lres'[r].status = 200
                  /\ lres'[r].likeCount + 1 = Len(before)
                  /\ post'[p].likes = Filter(before, u)
C11_LikeUnlikeSequential == [][\A r \in ReqSlots : C11_LikeStep(r)]_vars
\* like, like again (400), unlike: counts 1 and 0
C11_Witness ==
  \E r1, r2, r3 \in ReqSlots, u \in Users :
    /\ r1 < r2 /\ r2 < r3
    /\ lres[r1].op = "likePost" /\ lres[r1].userId = u
    /\ lres[r1].status = 200 /\ lres[r1].likeCount = 1
    /\ lres[r2].op = "likePost" /\ lres[r2].userId = u
    /\ lres[r2].status = 400
    /\ lres[r3].op = "unlikePost" /\ lres[r3].userId = u
    /\ lres[r3].status = 200 /\ lres[r3].likeCount = 0
    /\ ~Includes(post[lres[r3].id].likes, u)

\* ================================================================= saveJob
\* The store holds the jobs of InitJob; no user has saved a job.
InitSave ==
  /\ job = [j \in Jobs |-> IF j = "j1" THEN PostedJob({})
                           ELSE IF j = "j2" THEN PostedJob({1}) ELSE NoJob]
  /\ appliedJobs = [u \in Users |-> <<>>]
  /\ now = 0
  /\ jreq = [r \in ReqSlots |-> IdleJobReq]
  /\ jres = [r \in ReqSlots |-> NoRes]
  /\ community = [c \in Communities |-> NoCommunity]
  /\ joined = [u \in Users |-> {}]
  /\ notified = [u \in Users |-> {}]
  /\ post = [p \in Posts |-> NoPost]
  /\ NoCommunityRequests
  /\ NoLikeRequests

CanStartSave(r) ==
  /\ sreq[r].pc = "idle"
  /\ \A q \in ReqSlots : q < r => sreq[q].pc # "idle"

\* res.status(status).json(result) and the handler returns
RespondSave(r, id, userId, status, message, isSaved) ==
  /\ sreq' = [sreq EXCEPT ![r] = DoneSaveReq]
  /\ sres' = [sres EXCEPT ![r] =
                [op |-> "saveJob", id |-> id, userId |-> userId,
                 status |-> status, message |-> message, isSaved |-> isSaved]]

GotoSave(r, rec) ==
  /\ sreq' = [sreq EXCEPT ![r] = rec]
  /\ UNCHANGED sres

\* this.findById(jobId): a malformed id is a CastError and an absent job
\* throws "Job not found"; saveJob's catch answers 404 for both.  The route
\* is behind authMiddleware, so req.user.id names a stored user.
SaveFindJob(r) ==
  /\ CanStartSave(r)
  /\ \E id \in Jobs \cup {BadId}, reqUser \in Users :
       IF ~IsObjectId(id) \/ ~job[id].exists
       THEN RespondSave(r, id, reqUser, 404, "Job not found", FALSE)
       ELSE GotoSave(r, [IdleSaveReq EXCEPT !.op = "saveJob",
                           !.pc = "findUser", !.id = id, !.userId = reqUser])
  /\ UNCHANGED savedJobs

\* user.savedJobs.includes(job._id)
IsSavedNever(saved, j) == FALSE
IsSaved(saved, j) == Includes(saved, j)

\* User.findById(userId) and the check on the user read
SaveFindUser(r) ==
  /\ sreq[r].op = "saveJob" /\ sreq[r].pc = "findUser"
  /\ IF sreq[r].userId \notin Users
     THEN RespondSave(r, sreq[r].id, sreq[r].userId, 404, "User not found",
                      FALSE)
     ELSE GotoSave(r, [sreq[r] EXCEPT
                         !.pc = "update",
                         !.isSaved = IsSaved(savedJobs[sreq[r].userId],
                                             sreq[r].id)])
  /\ UNCHANGED savedJobs

\* {$pull: {savedJobs: id}}: every occurrence is removed
PullSaved(saved, u, j) == [saved EXCEPT ![u] = Filter(@, j)]
\* {$addToSet: {savedJobs: id}}: appended unless present
AddToSetSaved(saved, u, j) ==
  [saved EXCEPT ![u] = IF Includes(@, j) THEN @ ELSE Append(@, j)]

\* User.findByIdAndUpdate with $pull or $addToSet, and the result returned
SaveUpdate(r) ==
  /\ sreq[r].op = "saveJob" /\ sreq[r].pc = "update"
  /\ IF sreq[r].isSaved
     THEN /\ savedJobs' = PullSaved(savedJobs, sreq[r].userId, sreq[r].id)
          /\ RespondSave(r, sreq[r].id, sreq[r].userId, 200, "Job unsaved",
                         FALSE)
     ELSE /\ savedJobs' = AddToSetSaved(savedJobs, sreq[r].userId, sreq[r].id)
          /\ RespondSave(r, sreq[r].id, sreq[r].userId, 200, "Job saved",
                         TRUE)

OtherThanSave ==
  UNCHANGED <<communityVars, post, jobVars, likeVars, authVars, ownerVars,
              ident, account>>

NextSave ==
  \/ \E r \in ReqSlots : SaveFindJob(r) /\ OtherThanSave
  \/ \E r \in ReqSlots : SaveFindUser(r) /\ OtherThanSave
  \/ \E r \in ReqSlots : SaveUpdate(r) /\ OtherThanSave

SaveSpec == InitSave /\ [][NextSave]_vars

\* ------------------------------------------------ saveJob, one call at a time
SaveInFlight == \E r \in ReqSlots : sreq[r].pc \notin {"idle", "done"}
OneSaveAtATime ==
  \A r \in ReqSlots :
    (sreq[r].pc = "idle" /\ sreq'[r].pc # "idle") => ~SaveInFlight

NextSaveSeq == NextSave /\ OneSaveAtATime

SaveSeqSpec == InitSave /\ [][NextSaveSeq]_vars

\* C12: with calls run one at a time, a saveJob of an existing job j by user
\* u is answered 200 with isSaved the negation of "j is in u.savedJobs
\* before the call" and equal to "j is in u.savedJobs after the call"; the
\* call changes only the presence of j in u.savedJobs: the other saved jobs
\* of u, the other users, the jobs and the applications stay as they were.
SaveAnswered(r) == sreq[r].pc # "done" /\ sreq'[r].pc = "done"
C12_SaveStep(r) ==
  /\ ( SaveAnswered(r) /\ sres'[r].id \in Jobs /\ job[sres'[r].id].exists )
     => LET j == sres'[r].id
            u == sres'[r].userId
        IN /\ sres'[r].status = 200
           /\ sres'[r].isSaved = ~Includes(savedJobs[u], j)
           /\ sres'[r].isSaved = Includes(savedJobs'[u], j)
           /\ Filter(savedJobs'[u], j) = Filter(savedJobs[u], j)
           /\ \A w \in Users \ {u} : savedJobs'[w] = savedJobs[w]
  /\ ~SaveAnswered(r) => (sreq'[r] # sreq[r] => savedJobs' = savedJobs)
  /\ sreq'[r] # sreq[r] =>
       UNCHANGED <<job, appliedJobs, joined, notified, community, post>>
C12_SaveToggles == [][\A r \in ReqSlots : C12_SaveStep(r)]_vars
\* three successive calls for one user and one job: true, false, true
C12_Witness ==
  \E u \in Users, j \in Jobs :
    /\ \A r \in ReqSlots :
         /\ sres[r].op = "saveJob" /\ sres[r].status = 200
         /\ sres[r].userId = u /\ sres[r].id = j
    /\ sres[1].isSaved /\ ~sres[2].isSaved /\ sres[3].isSaved
    /\ savedJobs[u] = <<j>>

\* ==================================================================== auth
\* process.env.JWT_EXPIRE, in ticks of the clock
TokenLife == 2
\* jwt.sign({id}, process.env.JWT_SECRET, {expiresIn})
SignOtherKey(id, t) ==
  [kind |-> "jwt", id |-> id, exp |-> t + TokenLife, key |-> "other"]
Sign(id, t) ==
  [kind |-> "jwt", id |-> id, exp |-> t + TokenLife, key |-> "JWT_SECRET"]
\* jwt.verify(token, process.env.JWT_SECRET): the error name, or "ok"
Verify(token, t) ==
  IF token.kind # "jwt" \/ token.key # "JWT_SECRET"
  THEN "JsonWebTokenError"
  ELSE IF t >= token.exp THEN "TokenExpiredError" ELSE "ok"

\* credentials a client can hold besides the ones the server returned
\* the token of an earlier login of user 1, expiring at time 1
SeedToken == [kind |-> "jwt", id |-> 1, exp |-> 1, key |-> "JWT_SECRET"]
\* a token for user 1 signed with another key
ForgedToken == [kind |-> "jwt", id |-> 1, exp |-> MaxTime + TokenLife,
                key |-> "other"]
\* a token the server signed for a user that is no longer stored
RemovedUserToken == [kind |-> "jwt", id |-> RemovedUserId,
                     exp |-> MaxTime + TokenLife, key |-> "JWT_SECRET"]
Presentable ==
  {Garbage, SeedToken, ForgedToken, RemovedUserToken}
    \cup {ares[r].token : r \in {q \in ReqSlots : ares[q].token.kind = "jwt"}}
Returned ==
  {ares[r].token : r \in {q \in ReqSlots : ares[q].token.kind = "jwt"}}
\* cookie "token": any of them; cookie "auth_token" and the header: absent,
\* not a JWT, or a token the server signed
TokenValues == {NoToken, EmptyString} \cup Presentable
AuthTokenValues == {NoToken, Garbage, SeedToken}
AuthorizationValues ==
  {NoAuthorization, [scheme |-> "Basic", cred |-> Garbage],
   [scheme |-> "Bearer", cred |-> Garbage],
   [scheme |-> "Bearer", cred |-> SeedToken]}
    \cup {[scheme |-> "Bearer", cred |-> c] : c \in Returned}

\* a JavaScript value that is not null, undefined or ""
Truthy(c) == c.kind \notin {"none", "empty"}
\* req.cookies.token || req.cookies.auth_token || (Bearer header ? ... : null)
ExtractTokenBearerFirst(token, auth_token, authorization) ==
  IF authorization.scheme = "Bearer" /\ Truthy(authorization.cred)
  THEN authorization.cred
  ELSE IF Truthy(token) THEN token
  ELSE IF Truthy(auth_token) THEN auth_token
  ELSE NoToken
ExtractToken(token, auth_token, authorization) ==
  IF Truthy(token) THEN token
  ELSE IF Truthy(auth_token) THEN auth_token
  ELSE IF authorization.scheme = "Bearer" THEN authorization.cred
  ELSE NoToken

\* the server with the signing key configured or not; the seed user stored
InitAuth ==
  /\ user = SeedUsers
  /\ jwtSecret \in BOOLEAN
  /\ areq = [r \in ReqSlots |-> IdleAuthReq]
  /\ ares = [r \in ReqSlots |-> NoAuthRes]
  /\ NoSaveRequests
  /\ NoOwnerRequests
  /\ ident = NoIdent
  /\ account = [i \in UserIds |-> NoAccount]
  /\ lreq = [r \in ReqSlots |-> IdleLikeReq]
  /\ lres = [r \in ReqSlots |-> NoLikeRes]
  /\ NoCommunityRequests
  /\ NoJobRequests
  /\ community = [c \in Communities |-> NoCommunity]
  /\ joined = [u \in Users |-> {}]
  /\ notified = [u \in Users |-> {}]
  /\ post = [p \in Posts |-> NoPost]

\* a request enters in the next free slot; the synchronous part of the
\* middleware runs in the tick of its arrival, so no other request is
\* waiting between arrival and that part
CanStartAuth(r) ==
  /\ areq[r].pc = "idle"
  /\ \A q \in ReqSlots : q < r => areq[q].pc # "idle"
  /\ \A q \in ReqSlots : areq[q].pc # "received"

RespondAuth(r, res) ==
  /\ areq' = [areq EXCEPT ![r] = DoneAuthReq]
  /\ ares' = [ares EXCEPT ![r] = res]

GotoAuth(r, rec) ==
  /\ areq' = [areq EXCEPT ![r] = rec]
  /\ UNCHANGED ares

\* the header credential would verify (recorded with the response)
BearerVerifies(rec) ==
  /\ jwtSecret
  /\ rec.authorization.scheme = "Bearer"
  /\ Verify(rec.authorization.cred, now) = "ok"

\* cookieParser() and the header parsing: a request for a route behind
\* authMiddleware ("getMe") or behind optionalAuthMiddleware arrives
Receive(r) ==
  /\ CanStartAuth(r)
  /\ \E op \in {"getMe", "optional"}, token \in TokenValues,
        auth_token \in AuthTokenValues, authorization \in AuthorizationValues :
       GotoAuth(r, [IdleAuthReq EXCEPT !.op = op, !.pc = "received",
                      !.token = token, !.auth_token = auth_token,
                      !.authorization = authorization])
  /\ UNCHANGED user

\* the same arrival from a browser that holds what the server set: register
\* and login set the cookies "token" and "auth_token" to one token
Present(r) ==
  /\ CanStartAuth(r)
  /\ \E op \in {"getMe", "optional"}, c \in {NoToken} \cup Presentable :
       GotoAuth(r, [IdleAuthReq EXCEPT !.op = op, !.pc = "received",
                      !.token = c, !.auth_token = c])
  /\ UNCHANGED user

\* ------------------------------------------------------------ authMiddleware
\* res.status(status).json({message}) by the middleware: the chain stops
Reject(r, status, message) ==
  RespondAuth(r, [NoAuthRes EXCEPT !.op = areq[r].op, !.status = status,
                    !.message = message,
                    !.bearerVerifies = BearerVerifies(areq[r])])

\* token extraction, the missing-token and missing-key returns, jwt.verify
AuthMiddleware(r) ==
  /\ areq[r].op = "getMe" /\ areq[r].pc = "received"
  /\ LET token == ExtractToken(areq[r].token, areq[r].auth_token,
                               areq[r].authorization)
     IN IF ~Truthy(token)
        THEN Reject(r, 401, "Authentication required")
        ELSE IF ~jwtSecret
        THEN Reject(r, 500, "Server configuration error")
        ELSE IF Verify(token, now) = "TokenExpiredError"
        THEN Reject(r, 401, "Authentication expired")
        ELSE IF Verify(token, now) = "JsonWebTokenError"
        THEN Reject(r, 401, "Invalid authentication")
        ELSE GotoAuth(r, [IdleAuthReq EXCEPT !.op = areq[r].op,
                            !.pc = "findUser", !.credential = token,
                            !.userId = token.id])
  /\ UNCHANGED user

\* User.findById(decoded.id) returns a document
UserExistsAlways(id) == TRUE
UserExists(id) == id \in UserIds /\ user[id].exists

\* User.findById(decoded.id); req.user = user; next()
AuthFindUser(r) ==
  /\ areq[r].op = "getMe" /\ areq[r].pc = "findUser"
  /\ IF ~UserExists(areq[r].userId)
     THEN Reject(r, 401, "User not found")
     ELSE GotoAuth(r, [areq[r] EXCEPT !.pc = "handler",
                         !.reqUser = areq[r].userId])
  /\ UNCHANGED user

\* getMe: User.findById(req.user.id) and the 200 with the user's fields; a
\* missing document is a TypeError, caught as 500
GetMe(r) ==
  /\ areq[r].op = "getMe" /\ areq[r].pc = "handler"
  /\ IF areq[r].reqUser \in UserIds /\ user[areq[r].reqUser].exists
     THEN RespondAuth(r, [NoAuthRes EXCEPT
                            !.op = "getMe", !.status = 200,
                            !.user = areq[r].reqUser,
                            !.email = user[areq[r].reqUser].email,
                            !.reqUser = areq[r].reqUser,
                            !.nextCalls = 1, !.handler = TRUE])
     ELSE RespondAuth(r, [NoAuthRes EXCEPT
                            !.op = "getMe", !.status = 500,
                            !.message = "Server error",
                            !.reqUser = areq[r].reqUser,
                            !.nextCalls = 1, !.handler = TRUE])
  /\ UNCHANGED user

\* ---------------------------------------------------- optionalAuthMiddleware
\* next(): the route handler takes over; what it was given is recorded
Continue(r, reqUser, bearerVerifies) ==
  RespondAuth(r, [NoAuthRes EXCEPT !.op = "optional", !.reqUser = reqUser,
                    !.nextCalls = 1, !.handler = TRUE,
                    !.bearerVerifies = bearerVerifies])
\* the catch block answers 401 instead of calling next()
OptionalFailRejects(r) ==
  RespondAuth(r, [NoAuthRes EXCEPT !.op = "optional", !.status = 401,
                    !.message = "Invalid authentication"])
\* catch (error) { next(); }
OptionalFail(r) == Continue(r, 0, BearerVerifies(areq[r]))

\* token extraction, return next() without a token, jwt.verify (which throws
\* on a missing key as on a bad token)
OptionalAuthMiddleware(r) ==
  /\ areq[r].op = "optional" /\ areq[r].pc = "received"
  /\ LET token == ExtractToken(areq[r].token, areq[r].auth_token,
                               areq[r].authorization)
     IN IF ~Truthy(token)
        THEN Continue(r, 0, BearerVerifies(areq[r]))
        ELSE IF ~jwtSecret \/ Verify(token, now) # "ok"
        THEN OptionalFail(r)
        ELSE GotoAuth(r, [IdleAuthReq EXCEPT !.op = "optional",
                            !.pc = "findUser", !.credential = token,
                            !.userId = token.id])
  /\ UNCHANGED user

\* User.findById(decoded.id); if (user) req.user = user; next()
OptionalFindUser(r) ==
  /\ areq[r].op = "optional" /\ areq[r].pc = "findUser"
  /\ Continue(r, IF UserExists(areq[r].userId) THEN areq[r].userId ELSE 0,
              FALSE)
  /\ UNCHANGED user

\* ------------------------------------------------------------------ register
\* generateToken throws without a key; the catch block answers 500
TokenFailure(r, op) ==
  RespondAuth(r, [NoAuthRes EXCEPT !.op = op, !.status = 500,
                    !.message = "Server error",
                    !.nextCalls = 1, !.handler = TRUE])
\* cookies "token" and "auth_token", and the body {success, user, token}
TokenSuccess(r, op, status, id, signed) ==
  RespondAuth(r, [NoAuthRes EXCEPT !.op = op, !.status = status,
                    !.token = signed, !.cookie = TRUE,
                    !.user = id, !.email = areq[r].email,
                    !.nextCalls = 1, !.handler = TRUE])
\* any other response of register or login
Answer(r, op, status, message) ==
  RespondAuth(r, [NoAuthRes EXCEPT !.op = op, !.status = status,
                    !.message = message,
                    !.nextCalls = 1, !.handler = TRUE])

\* User.findOne({email})
UsersWithEmail(email) == {i \in UserIds : user[i].exists /\ user[i].email = email}

RegisterFind(r) ==
  /\ CanStartAuth(r)
  /\ \E email \in Emails, password \in Passwords \cup {Undefined} :
       IF UsersWithEmail(email) # {}
       THEN RespondAuth(r, [NoAuthRes EXCEPT
                              !.op = "register", !.status = 400,
                              !.message = "User already exists",
                              !.nextCalls = 1, !.handler = TRUE])
       ELSE GotoAuth(r, [IdleAuthReq EXCEPT !.op = "register",
                           !.pc = "create", !.email = email,
                           !.password = password])
  /\ UNCHANGED user

\* the _id User.create gives the new document
NewUserId == CHOOSE i \in UserIds :
               /\ ~user[i].exists
               /\ \A k \in UserIds : k < i => user[k].exists

\* User.create (validation, the pre-save hash, the unique index on email),
\* then generateToken, the cookies and the 201
RegisterCreate(r) ==
  /\ areq[r].op = "register" /\ areq[r].pc = "create"
  /\ IF areq[r].password = Undefined \/ UsersWithEmail(areq[r].email) # {}
     THEN /\ Answer(r, "register", 500, "Server error")
          /\ UNCHANGED user
     ELSE /\ user' = [user EXCEPT ![NewUserId] =
                        [exists |-> TRUE, email |-> areq[r].email,
                         password |-> Hash(areq[r].password)]]
          /\ IF ~jwtSecret
             THEN TokenFailure(r, "register")
             ELSE TokenSuccess(r, "register", 201, NewUserId,
                               Sign(NewUserId, now))

\* --------------------------------------------------------------------- login
\* User.findOne({email}).select("+password")
LoginFind(r) ==
  /\ CanStartAuth(r)
  /\ \E email \in Emails, password \in Passwords \cup {Undefined} :
       IF UsersWithEmail(email) = {}
       THEN RespondAuth(r, [NoAuthRes EXCEPT
                              !.op = "login", !.status = 401,
                              !.message = "Invalid email or password",
                              !.nextCalls = 1, !.handler = TRUE])
       ELSE GotoAuth(r, [IdleAuthReq EXCEPT
                           !.op = "login", !.pc = "match", !.email = email,
                           !.password = password,
                           !.userId = CHOOSE i \in UsersWithEmail(email) : TRUE])
  /\ UNCHANGED user

\* bcrypt.compare(enteredPassword, this.password): "throws" when the entered
\* password is not a string
MatchPassword(entered, hash) ==
  IF entered = Undefined THEN "throws"
  ELSE IF Hash(entered) = hash THEN "match" ELSE "mismatch"

\* user.matchPassword(password), then generateToken, the cookies and the 200;
\* the stored hash is not changed by any handler of this specification
LoginMatch(r) ==
  /\ areq[r].op = "login" /\ areq[r].pc = "match"
  /\ LET isMatch == MatchPassword(areq[r].password,
                                  user[areq[r].userId].password)
     IN IF isMatch = "throws"
        THEN Answer(r, "login", 500, "Server error")
        ELSE IF isMatch = "mismatch"
        THEN Answer(r, "login", 401, "Invalid email or password")
        ELSE IF ~jwtSecret
        THEN TokenFailure(r, "login")
        ELSE TokenSuccess(r, "login", 200, areq[r].userId,
                          Sign(areq[r].userId, now))
  /\ UNCHANGED user

OtherThanAuth ==
  UNCHANGED <<communityVars, post, jobVars, likeVars, saveVars, ownerVars,
              jwtSecret, ident, account>>

\* the two middlewares alone, under every combination of credentials
NextMiddleware ==
  \/ \E r \in ReqSlots : Receive(r) /\ OtherThanAuth
  \/ \E r \in ReqSlots : AuthMiddleware(r) /\ OtherThanAuth
  \/ \E r \in ReqSlots : AuthFindUser(r) /\ OtherThanAuth
  \/ \E r \in ReqSlots : GetMe(r) /\ OtherThanAuth
  \/ \E r \in ReqSlots : OptionalAuthMiddleware(r) /\ OtherThanAuth
  \/ \E r \in ReqSlots : OptionalFindUser(r) /\ OtherThanAuth
  \/ Tick /\ OtherThanJob

MiddlewareSpec == InitAuth /\ [][NextMiddleware]_vars

\* register, login and the routes behind the middlewares
NextAuth ==
  \/ \E r \in ReqSlots : Present(r) /\ OtherThanAuth
  \/ \E r \in ReqSlots : AuthMiddleware(r) /\ OtherThanAuth
  \/ \E r \in ReqSlots : AuthFindUser(r) /\ OtherThanAuth
  \/ \E r \in ReqSlots : GetMe(r) /\ OtherThanAuth
  \/ \E r \in ReqSlots : OptionalAuthMiddleware(r) /\ OtherThanAuth
  \/ \E r \in ReqSlots : OptionalFindUser(r) /\ OtherThanAuth
  \/ \E r \in ReqSlots : RegisterFind(r) /\ OtherThanAuth
  \/ \E r \in ReqSlots : RegisterCreate(r) /\ OtherThanAuth
  \/ \E r \in ReqSlots : LoginFind(r) /\ OtherThanAuth
  \/ \E r \in ReqSlots : LoginMatch(r) /\ OtherThanAuth
  \/ Tick /\ OtherThanJob

AuthSpec == InitAuth /\ [][NextAuth]_vars

\* --------------------------------------------------------------- auth claims
\* the credential a request carries, and what becomes of a request in a step
Carried(rec) == ExtractToken(rec.token, rec.auth_token, rec.authorization)
Extracts(r, op) ==
  areq[r].op = op /\ areq[r].pc = "received" /\ areq'[r] # areq[r]
LooksUp(r, op) ==
  areq[r].op = op /\ areq[r].pc = "findUser" /\ areq'[r] # areq[r]
Stopped(r, status) ==
  /\ areq'[r].pc = "done"
  /\ ares'[r].status = status
  /\ ares'[r].reqUser = 0
  /\ ares'[r].nextCalls = 0
  /\ ~ares'[r].handler
Passed(r, c) ==
  /\ areq'[r].pc = "findUser"
  /\ areq'[r].credential = c
  /\ areq'[r].userId = c.id
  /\ ares'[r] = ares[r]

\* C13: behind authMiddleware the handler runs only for a request whose
\* token verified and whose user id names a stored user, with req.user that
\* user; a request without a token, with a token that is malformed, badly
\* signed or expired, or whose user is not stored is answered 401 with no
\* req.user and the handler is not invoked.
C13_AuthStep(r) ==
  /\ Extracts(r, "getMe") =>
       LET c == Carried(areq[r])
       IN /\ ~Truthy(c) => Stopped(r, 401)
          /\ (jwtSecret /\ Truthy(c) /\ Verify(c, now) # "ok") => Stopped(r, 401)
          /\ (jwtSecret /\ Verify(c, now) = "ok") => Passed(r, c)
          /\ areq'[r].pc \in {"done", "findUser"}
          /\ areq'[r].pc = "done" => ~ares'[r].handler
  /\ LooksUp(r, "getMe") =>
       IF areq[r].userId \in UserIds /\ user[areq[r].userId].exists
       THEN /\ areq'[r].pc = "handler"
            /\ areq'[r].reqUser = areq[r].userId
            /\ areq'[r].reqUser = areq[r].credential.id
       ELSE Stopped(r, 401)
  /\ ( areq'[r].op = "getMe" /\ areq'[r].pc = "handler" ) =>
       ( LooksUp(r, "getMe") \/ areq[r].pc = "handler" )
  /\ ( areq'[r].pc = "done" /\ ares'[r].op = "getMe" /\ ares'[r].handler ) =>
       ( areq[r].pc \in {"handler", "done"} /\ ares'[r].reqUser \in UserIds )
C14_OptionalStep(r) ==
  /\ Extracts(r, "optional") =>
       LET c == Carried(areq[r])
       IN IF jwtSecret /\ Truthy(c) /\ Verify(c, now) = "ok"
          THEN Passed(r, c)
          ELSE /\ areq'[r].pc = "done"
               /\ ares'[r].reqUser = 0
  /\ LooksUp(r, "optional") =>
       /\ areq'[r].pc = "done"
       /\ IF areq[r].userId \in UserIds /\ user[areq[r].userId].exists
          THEN ares'[r].reqUser = areq[r].userId
          ELSE ares'[r].reqUser = 0
  /\ ( areq[r].op = "optional" /\ areq[r].pc # "done" /\ areq'[r].pc = "done" )
       => /\ ares'[r].status = 0
          /\ ares'[r].nextCalls = 1
          /\ ares'[r].handler
C14_OptionalNeverBlocks == [][\A r \in ReqSlots : C14_OptionalStep(r)]_vars
\* one request continued with an identity and one continued without, after
\* its token had verified but named no stored user
C14_Witness ==
  \E r1, r2 \in ReqSlots :
    /\ ares[r1].op = "optional" /\ ares[r1].nextCalls = 1
    /\ ares[r1].status = 0 /\ ares[r1].reqUser = 1
    /\ ares[r2].op = "optional" /\ ares[r2].nextCalls = 1
    /\ ares[r2].status = 0 /\ ares[r2].reqUser = 0
    /\ areq[r2].pc = "done"
    /\ \E r3 \in ReqSlots :
         /\ ares[r3].op = "optional" /\ ares[r3].reqUser = 0
         /\ ares[r3].bearerVerifies

\* C15: both middlewares verify the first non-empty of cookie "token",
\* cookie "auth_token" and the Bearer header, and nothing else: a request
\* whose first credential does not verify is refused (401) or continued
\* without identity even when a later position holds a token that verifies.
FirstPresent(rec) ==
  IF rec.token.kind \notin {"none", "empty"} THEN rec.token
  ELSE IF rec.auth_token.kind \notin {"none", "empty"} THEN rec.auth_token
  ELSE IF rec.authorization.scheme = "Bearer" THEN rec.authorization.cred
  ELSE NoToken
C15_ExtractStep(r) ==
  ( areq[r].pc = "received" /\ areq'[r] # areq[r] /\ jwtSecret ) =>
    LET first == FirstPresent(areq[r])
    IN IF Verify(first, now) = "ok"
       THEN Passed(r, first)
       ELSE /\ areq'[r].pc = "done"
            /\ ares'[r].reqUser = 0
            /\ areq[r].op = "getMe" =>
                 ( ares'[r].status = 401 /\ ~ares'[r].handler )
            /\ areq[r].op = "optional" =>
                 ( ares'[r].status = 0 /\ ares'[r].nextCalls = 1 )
C16_MisconfiguredFirstRequestFails ==
  ( /\ ~jwtSecret
    /\ areq[1].pc = "done"
    /\ ares[1].op \in {"getMe", "register", "login"}
    /\ \A r \in ReqSlots \ {1} : areq[r].pc = "idle" )
  => /\ ares[1].status >= 500
     /\ user = SeedUsers

\* C17: a token returned by a successful register (201) or login (200),
\* presented to authMiddleware before its expiry, passes verification, the
\* lookup attaches the user that register created / login found, and getMe
\* answers 200 with that user's id and email; the user a 201 names is the
\* document that register stored, under the email of the request.
IssuedBy(c) ==
  {q \in ReqSlots : /\ ares[q].op \in {"register", "login"}
                    /\ ares[q].status \in {200, 201}
                    /\ ares[q].token = c}
C17_TokenStep(r) ==
  /\ ( Extracts(r, "getMe") /\ IssuedBy(Carried(areq[r])) # {}
       /\ now < Carried(areq[r]).exp )
     => Passed(r, Carried(areq[r]))
  /\ ( LooksUp(r, "getMe") /\ IssuedBy(areq[r].credential) # {} )
     => /\ areq'[r].pc = "handler"
        /\ \A q \in IssuedBy(areq[r].credential) :
             areq'[r].reqUser = ares[q].user
  /\ ( areq[r].op = "getMe" /\ areq[r].pc = "handler" /\ areq'[r] # areq[r]
       /\ IssuedBy(areq[r].credential) # {} )
     => /\ ares'[r].status = 200
        /\ \A q \in IssuedBy(areq[r].credential) :
             /\ ares'[r].user = ares[q].user
             /\ ares'[r].email = ares[q].email
  /\ ( areq[r].op = "register" /\ areq'[r].pc = "done"
       /\ areq[r].pc # "done" /\ ares'[r].status = 201 )
     => /\ ares'[r].token.kind = "jwt"
        /\ ares'[r].token.id = ares'[r].user
        /\ ares'[r].cookie
        /\ ~user[ares'[r].user].exists
        /\ user'[ares'[r].user] = [exists |-> TRUE, email |-> areq[r].email,
                                   password |-> Hash(areq[r].password)]
        /\ ares'[r].email = areq[r].email
C17_ReturnedTokenResolves == [][\A r \in ReqSlots : C17_TokenStep(r)]_vars
\* register, login with the same email, then getMe answering with that user
C17_Witness ==
  \E r1, r2, r3 \in ReqSlots :
    /\ ares[r1].op = "register" /\ ares[r1].status = 201
    /\ ares[r2].op = "login" /\ ares[r2].status = 200
    /\ ares[r2].email = ares[r1].email /\ ares[r2].user = ares[r1].user
    /\ ares[r3].op = "getMe" /\ ares[r3].status = 200
    /\ ares[r3].reqUser = ares[r1].user
    /\ ares[r3].email = ares[r1].email
    /\ ares[r1].user # 1

\* C18: a login whose email matches no user and a login whose email matches
\* a user but whose password is not that user's get the same answer: 401,
\* "Invalid email or password", no token, no cookie.
Unauthenticated(r) ==
  /\ ares'[r].status = 401
  /\ ares'[r].message = "Invalid email or password"
  /\ ares'[r].token = NoToken
  /\ ~ares'[r].cookie
C18_LoginStep(r) ==
  /\ ( areq[r].pc = "idle" /\ areq'[r].pc = "done" /\ ares'[r].op = "login" )
     => Unauthenticated(r)
  /\ ( areq[r].op = "login" /\ areq[r].pc = "match" /\ areq'[r] # areq[r]
       /\ user[areq[r].userId].password # Hash(areq[r].password) )
     => ( areq'[r].pc = "done" /\ Unauthenticated(r) )
C18_LoginIndistinguishable == [][\A r \in ReqSlots : C18_LoginStep(r)]_vars

\* ===================================================== poster-only job routes
\* The store holds job "j1" posted by "u1", to which "u2" has applied
\* (applyForJob completed), and job "j2" posted by "u2"; "j3" names no job.
InitOwner ==
  /\ job = [j \in Jobs |->
              IF j = "j1"
              THEN [PostedJob({}) EXCEPT
                      !.applicants = <<[user |-> "u2", status |-> "applied"]>>,
                      !.v = 1]
              ELSE IF j = "j2"
              THEN [PostedJob({}) EXCEPT !.postedBy = "u2"]
              ELSE NoJob]
  /\ appliedJobs = [u \in Users |->
                      IF u = "u2"
                      THEN <<[job |-> "j1", status |-> "applied"]>>
                      ELSE <<>>]
  /\ now = 0
  /\ jreq = [r \in ReqSlots |-> IdleJobReq]
  /\ jres = [r \in ReqSlots |-> NoRes]
  /\ community = [c \in Communities |-> NoCommunity]
  /\ joined = [u \in Users |-> {}]
  /\ notified = [u \in Users |-> {}]
  /\ post = [p \in Posts |-> NoPost]
  /\ NoCommunityRequests
  /\ NoLikeRequests

CanStartOwner(r) ==
  /\ oreq[r].pc = "idle"
  /\ \A q \in ReqSlots : q < r => oreq[q].pc # "idle"

RespondOwner(r, op, id, userId, status, message) ==
  /\ oreq' = [oreq EXCEPT ![r] = DoneOwnerReq]
  /\ ores' = [ores EXCEPT ![r] = [op |-> op, id |-> id, userId |-> userId,
                                   status |-> status, message |-> message]]

GotoOwner(r, rec) ==
  /\ oreq' = [oreq EXCEPT ![r] = rec]
  /\ UNCHANGED ores

\* Job.findById finds a document (a malformed id is a CastError)
JobFound(id) == IsObjectId(id) /\ job[id].exists
\* job.postedBy.toString() === req.user.id
IsPosterAlways(doc, u) == TRUE
IsPoster(doc, u) == doc.postedBy = u

JobIdParams == Jobs \cup {BadId}

\* ----------------------------------------------------------------- updateJob
Bodies == [postedBy : Users \cup {None}, applicationDeadline : {<<>>, <<2>>}]
\* {$set: req.body} on the stored document
SetBody(doc, body) ==
  [doc EXCEPT
     !.postedBy = IF body.postedBy # None THEN body.postedBy ELSE @,
     !.applicationDeadline = IF body.applicationDeadline # <<>>
                             THEN {body.applicationDeadline[1]} ELSE @]

\* Job.findById, the 404 and the 403; the route is behind authMiddleware
UpdateFind(r) ==
  /\ CanStartOwner(r)
  /\ \E id \in JobIdParams, reqUser \in Users, body \in Bodies :
       IF ~JobFound(id)
       THEN RespondOwner(r, "updateJob", id, reqUser, 404, "Job not found")
       ELSE IF ~IsPoster(job[id], reqUser)
       THEN RespondOwner(r, "updateJob", id, reqUser, 403,
                         "Not authorized to update this job")
       ELSE GotoOwner(r, [IdleOwnerReq EXCEPT
                            !.op = "updateJob", !.pc = "update", !.id = id,
                            !.userId = reqUser, !.doc = job[id],
                            !.body = body])
  /\ UNCHANGED <<job, appliedJobs>>

\* Job.findByIdAndUpdate(id, {$set: req.body}): one atomic update, no
\* version check; a job deleted meanwhile gives data: null
UpdateWrite(r) ==
  /\ oreq[r].op = "updateJob" /\ oreq[r].pc = "update"
  /\ job' = IF job[oreq[r].id].exists
            THEN [job EXCEPT ![oreq[r].id] = SetBody(@, oreq[r].body)]
            ELSE job
  /\ RespondOwner(r, "updateJob", oreq[r].id, oreq[r].userId, 200, "success")
  /\ UNCHANGED appliedJobs

\* ----------------------------------------------------------------- deleteJob
DeleteFind(r) ==
  /\ CanStartOwner(r)
  /\ \E id \in JobIdParams, reqUser \in Users :
       IF ~JobFound(id)
       THEN RespondOwner(r, "deleteJob", id, reqUser, 404, "Job not found")
       ELSE IF ~IsPoster(job[id], reqUser)
       THEN RespondOwner(r, "deleteJob", id, reqUser, 403,
                         "Not authorized to delete this job")
       ELSE GotoOwner(r, [IdleOwnerReq EXCEPT
                            !.op = "deleteJob", !.pc = "deleteOne", !.id = id,
                            !.userId = reqUser, !.doc = job[id]])
  /\ UNCHANGED <<job, appliedJobs>>

\* job.deleteOne(): the document with this _id is removed
DeleteOne(r) ==
  /\ oreq[r].op = "deleteJob" /\ oreq[r].pc = "deleteOne"
  /\ job' = [job EXCEPT ![oreq[r].id] = NoJob]
  /\ RespondOwner(r, "deleteJob", oreq[r].id, oreq[r].userId, 200,
                  "Job removed")
  /\ UNCHANGED appliedJobs

\* ---------------------------------------------------- updateApplicationStatus
ValidStatuses == {"applied", "reviewing", "interview", "rejected", "accepted"}
\* req.body.status as sent
StatusValues == {"accepted", "bogus"}
\* job.applicants.findIndex(app => app.user.toString() === req.params.user_id)
FindIndex(applicants, u) ==
  IF HasApplicant(applicants, u)
  THEN CHOOSE i \in DOMAIN applicants :
         /\ applicants[i].user = u
         /\ \A k \in DOMAIN applicants : applicants[k].user = u => i <= k
  ELSE 0

\* the status check, Job.findById, the 404, the 403, the applicant lookup
\* and the assignment on the local document
StatusFind(r) ==
  /\ CanStartOwner(r)
  /\ \E id \in JobIdParams, reqUser \in Users, status \in StatusValues,
        user_id \in Users \cup {BadId} :
       IF status \notin ValidStatuses
       THEN RespondOwner(r, "updateApplicationStatus", id, reqUser, 400,
                         "Invalid status")
       ELSE IF ~IsObjectId(id)
       THEN RespondOwner(r, "updateApplicationStatus", id, reqUser, 404,
                         "Job or user not found")
       ELSE IF ~job[id].exists
       THEN RespondOwner(r, "updateApplicationStatus", id, reqUser, 404,
                         "Job not found")
       ELSE IF ~IsPoster(job[id], reqUser)
       THEN RespondOwner(r, "updateApplicationStatus", id, reqUser, 403,
                         "Not authorized to update application status")
       ELSE IF FindIndex(job[id].applicants, user_id) = 0
       THEN RespondOwner(r, "updateApplicationStatus", id, reqUser, 404,
                         "Applicant not found")
       ELSE GotoOwner(r, [IdleOwnerReq EXCEPT
                            !.op = "updateApplicationStatus", !.pc = "save",
                            !.id = id, !.userId = reqUser, !.status = status,
                            !.user_id = user_id,
                            !.doc = [job[id] EXCEPT
                                       !.applicants[FindIndex(job[id].applicants,
                                                              user_id)].status
                                         = status]])
  /\ UNCHANGED <<job, appliedJobs>>

\* job.save() after the assignment to applicants[i].status: the element is
\* written by its index if the stored version is the one read (the version
\* is compared, not incremented); VersionError (caught, 500) otherwise
StatusSave(r) ==
  /\ oreq[r].op = "updateApplicationStatus" /\ oreq[r].pc = "save"
  /\ LET id == oreq[r].id
         i == FindIndex(oreq[r].doc.applicants, oreq[r].user_id)
     IN IF job[id].exists /\ job[id].v = oreq[r].doc.v
        THEN /\ job' = [job EXCEPT ![id].applicants[i].status = oreq[r].status]
             /\ GotoOwner(r, [oreq[r] EXCEPT !.pc = "userUpdate"])
        ELSE /\ UNCHANGED job
             /\ RespondOwner(r, "updateApplicationStatus", id, oreq[r].userId,
                             500, "Server error")
  /\ UNCHANGED appliedJobs

\* User.updateOne({_id, "appliedJobs.job": id},
\*                {$set: {"appliedJobs.$.status": status}}): the first entry
\* for the job gets the status; nothing happens when there is none
SetAppliedStatus(applied, j, status) ==
  IF HasApplied(applied, j)
  THEN LET i == CHOOSE i \in DOMAIN applied :
                  /\ applied[i].job = j
                  /\ \A k \in DOMAIN applied : applied[k].job = j => i <= k
       IN [applied EXCEPT ![i].status = status]
  ELSE applied

StatusUserUpdate(r) ==
  /\ oreq[r].op = "updateApplicationStatus" /\ oreq[r].pc = "userUpdate"
  /\ appliedJobs' =
       IF oreq[r].user_id \in Users
       THEN [appliedJobs EXCEPT ![oreq[r].user_id] =
               SetAppliedStatus(@, oreq[r].id, oreq[r].status)]
       ELSE appliedJobs
  /\ RespondOwner(r, "updateApplicationStatus", oreq[r].id, oreq[r].userId,
                  200, "Application status updated")
  /\ UNCHANGED job

OtherThanOwner ==
  UNCHANGED <<communityVars, post, now, jreq, jres, likeVars, saveVars,
              authVars, ident, account>>

NextOwner ==
  \/ \E r \in ReqSlots : UpdateFind(r) /\ OtherThanOwner
  \/ \E r \in ReqSlots : UpdateWrite(r) /\ OtherThanOwner
  \/ \E r \in ReqSlots : DeleteFind(r) /\ OtherThanOwner
  \/ \E r \in ReqSlots : DeleteOne(r) /\ OtherThanOwner
  \/ \E r \in ReqSlots : StatusFind(r) /\ OtherThanOwner
  \/ \E r \in ReqSlots : StatusSave(r) /\ OtherThanOwner
  \/ \E r \in ReqSlots : StatusUserUpdate(r) /\ OtherThanOwner

OwnerSpec == InitOwner /\ [][NextOwner]_vars

\* ------------------------------------------------------- poster-only claims
OwnerChecks(r) == oreq[r].pc = "idle" /\ oreq'[r].pc # "idle"
OwnerAnswered(r) == oreq'[r].pc = "done"
OwnerOp(r) == IF OwnerAnswered(r) THEN ores'[r].op ELSE oreq'[r].op
OwnerJob(r) == IF OwnerAnswered(r) THEN ores'[r].id ELSE oreq'[r].id
OwnerCaller(r) == IF OwnerAnswered(r) THEN ores'[r].userId ELSE oreq'[r].userId
OwnerWrites(r) ==
  /\ oreq[r].pc \in {"update", "deleteOne", "save", "userUpdate"}
  /\ oreq'[r] # oreq[r]

\* C19: updateJob, deleteJob and updateApplicationStatus write a job or an
\* applicant's status only in a request whose caller was job.postedBy in the
\* document read at the check; a caller who is not the poster of the
\* existing job the request names is answered 403 (once the request is past
\* updateApplicationStatus's validation of the status value, which answers
\* 400 first) and in either case the jobs and every user's appliedJobs stay
\* as they were.
C19_OwnerStep(r) ==
  /\ OwnerChecks(r) =>
       /\ UNCHANGED <<job, appliedJobs>>
       /\ ( JobFound(OwnerJob(r)) /\ job[OwnerJob(r)].postedBy # OwnerCaller(r) )
            => /\ OwnerAnswered(r)
               /\ \/ ores'[r].status = 403
                  \/ /\ ores'[r].op = "updateApplicationStatus"
                     /\ ores'[r].status = 400
                     /\ ores'[r].message = "Invalid status"
       /\ ~OwnerAnswered(r) =>
            /\ JobFound(OwnerJob(r))
            /\ job[OwnerJob(r)].postedBy = OwnerCaller(r)
            /\ oreq'[r].doc.postedBy = OwnerCaller(r)
  /\ OwnerWrites(r) => oreq[r].doc.postedBy = oreq[r].userId
C20_OrderStep(r) ==
  OwnerChecks(r) =>
    /\ ~JobFound(OwnerJob(r)) =>
         ( OwnerAnswered(r) /\ ores'[r].status = 404 )
    /\ ( JobFound(OwnerJob(r)) /\ job[OwnerJob(r)].postedBy # OwnerCaller(r) )
         => ( OwnerAnswered(r) /\ ores'[r].status = 403 )
C20_CheckOrder == [][\A r \in ReqSlots : C20_OrderStep(r)]_vars

\* ---------------------------------------------------------------- deletePost
\* what Post.findByIdAndDelete leaves: no document, and an _id that no later
\* Post.create gives out again
DeletedPost == [NoPost EXCEPT !.community = "deleted"]

\* the community "c1" of its creator and moderator "u1", with either no post
\* yet or the post "p1" of u1, of u2 (who has left since) or of nobody
InitPost ==
  /\ \E listed \in BOOLEAN, author \in Users \cup {None} :
       /\ community = [c \in Communities |->
                         [NewCommunity("u1") EXCEPT
                            !.posts = IF listed THEN <<"p1">> ELSE <<>>]]
       /\ post = [p \in Posts |-> IF listed THEN NewPost("c1", author)
                                  ELSE NoPost]
  /\ joined = [u \in Users |-> IF u = "u1" THEN {"c1"} ELSE {}]
  /\ notified = [u \in Users |-> IF u = "u1" THEN {"c1"} ELSE {}]
  /\ NoCommunityRequests
  /\ NoJobRequests
  /\ NoLikeRequests

\* post.author && post.author.toString() === req.user.id
IsAuthor(doc, u) == doc.author # None /\ doc.author = u
\* community && community.moderators && community.moderators.includes(id);
\* community.creator is no path of the schema and is always undefined
IsModeratorAlways(doc, u) == TRUE
IsModerator(doc, u) == doc.exists /\ Includes(doc.moderators, u)

\* Post.findById (a malformed id is a CastError, caught as 404), the 404 and
\* the author check; the route is behind authMiddleware
DeletePostFind(r) ==
  /\ CanStart(r)
  /\ \E postId \in Posts \cup {UnknownPost, BadId}, reqUser \in Users :
       IF ~IsObjectId(postId)
       THEN Respond(r, "deletePost", postId, reqUser, 404,
                    "Invalid post ID format")
       ELSE IF postId \notin Posts \/ ~post[postId].exists
       THEN Respond(r, "deletePost", postId, reqUser, 404, "Post not found")
       ELSE IF IsAuthor(post[postId], reqUser)
       THEN Goto(r, [IdleReq EXCEPT !.op = "deletePost", !.pc = "pull",
                       !.id = post[postId].community, !.userId = reqUser,
                       !.postId = postId])
       ELSE Goto(r, [IdleReq EXCEPT !.op = "deletePost",
                       !.pc = "findCommunity",
                       !.id = post[postId].community, !.userId = reqUser,
                       !.postId = postId])
  /\ UNCHANGED <<community, joined, notified, post>>

\* Community.findById(post.community), the moderator check and the 403
DeletePostFindCommunity(r) ==
  /\ creq[r].op = "deletePost" /\ creq[r].pc = "findCommunity"
  /\ IF IsModerator(community[creq[r].id], creq[r].userId)
     THEN Goto(r, [creq[r] EXCEPT !.pc = "pull",
                     !.doc = community[creq[r].id]])
     ELSE Respond(r, "deletePost", creq[r].postId, creq[r].userId, 403,
                  "Not authorized to delete this post")
  /\ UNCHANGED <<community, joined, notified, post>>

\* Community.findByIdAndUpdate(post.community, {$pull: {posts: post._id}})
DeletePostPull(r) ==
  /\ creq[r].op = "deletePost" /\ creq[r].pc = "pull"
  /\ community' = [community EXCEPT
                     ![creq[r].id].posts = Filter(@, creq[r].postId)]
  /\ Goto(r, [creq[r] EXCEPT !.pc = "delete"])
  /\ UNCHANGED <<joined, notified, post>>

\* Post.findByIdAndDelete(req.params.postId) and the 200
DeletePostDelete(r) ==
  /\ creq[r].op = "deletePost" /\ creq[r].pc = "delete"
  /\ post' = [post EXCEPT ![creq[r].postId] = DeletedPost]
  /\ Respond(r, "deletePost", creq[r].postId, creq[r].userId, 200,
             "Post deleted successfully")
  /\ UNCHANGED <<community, joined, notified>>

NextPost ==
  \/ \E r \in ReqSlots : PostFind(r) /\ Observed(r)
  \/ \E r \in ReqSlots : PostFindUser(r) /\ Observed(r)
  \/ \E r \in ReqSlots : PostUserUpdate(r) /\ Observed(r)
  \/ \E r \in ReqSlots : PostSaveMembers(r) /\ Observed(r)
  \/ \E r \in ReqSlots : PostCreate(r) /\ Observed(r)
  \/ \E r \in ReqSlots : PostSavePosts(r) /\ Observed(r)
  \/ \E r \in ReqSlots : DeletePostFind(r) /\ Observed(r)
  \/ \E r \in ReqSlots : DeletePostFindCommunity(r) /\ Observed(r)
  \/ \E r \in ReqSlots : DeletePostPull(r) /\ Observed(r)
  \/ \E r \in ReqSlots : DeletePostDelete(r) /\ Observed(r)

PostSpec == InitPost /\ [][NextPost]_vars

\* -------------------------------------------------------------- post claims
Acts(r) == creq'[r] # creq[r]
PostsOf(c) == {community[c].posts[i] : i \in DOMAIN community[c].posts}
Removes ==
  \/ \E p \in Posts : post[p].exists /\ ~post'[p].exists
  \/ \E c \in Communities : community'[c].posts # community[c].posts
                            /\ Len(community'[c].posts) <= Len(community[c].posts)

\* C21: deletePost removes a post, from the store or from its community's
\* list, only in a request that found the caller to be the post's author
\* or, failing that, to be in the moderators of the post's community; a
\* caller who is neither (whoever they are when the post has no author) is
\* answered 403, and the checks themselves leave every post and every list
\* as they were.
C21_DeleteStep(r) ==
  /\ ( creq[r].pc = "idle" /\ creq'[r].op = "deletePost" ) =>
       /\ StoreUnchanged
       /\ post[creq'[r].postId].exists
       /\ creq'[r].pc = IF post[creq'[r].postId].author = creq'[r].userId
                        THEN "pull" ELSE "findCommunity"
  /\ ( creq[r].op = "deletePost" /\ creq[r].pc = "findCommunity" /\ Acts(r) ) =>
       /\ StoreUnchanged
       /\ IF /\ community[creq[r].id].exists
             /\ creq[r].userId \in
                  {community[creq[r].id].moderators[i] :
                     i \in DOMAIN community[creq[r].id].moderators}
          THEN creq'[r].pc = "pull"
          ELSE /\ creq'[r].pc = "done"
               /\ cres'.op = "deletePost" /\ cres'.status = 403
               /\ cres'.userId = creq[r].userId
  /\ ( creq'[r].op = "deletePost" /\ creq'[r].pc = "pull" /\ Acts(r) ) =>
       creq[r].pc \in {"idle", "findCommunity"}
  /\ ( creq'[r].op = "deletePost" /\ creq'[r].pc = "delete" /\ Acts(r) ) =>
       creq[r].pc = "pull"
PostQuiet == \A r \in ReqSlots : creq[r].op \notin {"createPost", "deletePost"}
C22_PostsListed ==
  PostQuiet =>
    /\ \A c \in Communities : \A p \in PostsOf(c) :
         p \in Posts /\ post[p].exists /\ post[p].community = c
    /\ \A p \in Posts : post[p].exists =>
         Cardinality({ci \in Communities \X (1..MaxReqs) :
                        /\ ci[2] \in DOMAIN community[ci[1]].posts
                        /\ community[ci[1]].posts[ci[2]] = p}) = 1

\* ------------------------------------------------------- toggleNotifications
\* Community.findById (a malformed id is a CastError, caught as 404), the 404
\* and the membership check; the route is behind authMiddleware
ToggleFind(r) ==
  /\ CanStart(r)
  /\ \E id \in IdParams, reqUser \in Users :
       IF ~IsObjectId(id) \/ ~community[id].exists
       THEN Respond(r, "toggleNotifications", id, reqUser, 404,
                    "Community not found")
       ELSE IF ~Includes(community[id].members, reqUser)
       THEN Respond(r, "toggleNotifications", id, reqUser, 400,
                    "Not a member of this community")
       ELSE Goto(r, [IdleReq EXCEPT !.op = "toggleNotifications",
                       !.pc = "findUser", !.id = id, !.userId = reqUser,
                       !.doc = community[id]])
  /\ UNCHANGED <<community, joined, notified, post>>

\* user.notifiedCommunities.includes(community._id)
HasNotificationsNever(set, c) == FALSE
HasNotifications(set, c) == c \in set

\* User.findById(req.user.id) and the test of notifiedCommunities
ToggleFindUser(r) ==
  /\ creq[r].op = "toggleNotifications" /\ creq[r].pc = "findUser"
  /\ Goto(r, [creq[r] EXCEPT
                !.pc = "update",
                !.hasNotifications =
                   HasNotifications(notified[creq[r].userId], creq[r].id)])
  /\ UNCHANGED <<community, joined, notified, post>>

\* User.findByIdAndUpdate(req.user.id, {$pull / $addToSet:
\* {notifiedCommunities: community._id}}) and the 200
ToggleUpdate(r) ==
  /\ creq[r].op = "toggleNotifications" /\ creq[r].pc = "update"
  /\ IF creq[r].hasNotifications
     THEN /\ notified' = [notified EXCEPT ![creq[r].userId] = @ \ {creq[r].id}]
          /\ Respond(r, "toggleNotifications", creq[r].id, creq[r].userId,
                     200, "Notifications disabled")
     ELSE /\ notified' = [notified EXCEPT
                            ![creq[r].userId] = @ \cup {creq[r].id}]
          /\ Respond(r, "toggleNotifications", creq[r].id, creq[r].userId,
                     200, "Notifications enabled")
  /\ UNCHANGED <<community, joined, post>>

\* the community handlers together with toggleNotifications
NextNotify ==
  \/ NextCommunity
  \/ \E r \in ReqSlots : ToggleFind(r) /\ Observed(r)
  \/ \E r \in ReqSlots : ToggleFindUser(r) /\ Observed(r)
  \/ \E r \in ReqSlots : ToggleUpdate(r) /\ Observed(r)

NotifySpec == InitCommunity /\ [][NextNotify]_vars

\* the same handlers with a request admitted only when none is in flight
OneAtATime ==
  \A r \in ReqSlots :
    ( creq[r].pc = "idle" /\ creq'[r].pc # "idle" ) =>
      \A q \in ReqSlots : ~InFlight(q)
NextNotifySeq == NextNotify /\ OneAtATime
NotifySeqSpec == InitCommunity /\ [][NextNotifySeq]_vars

\* ------------------------------------------------------ notification claims
\* C23: with requests handled one at a time, toggleNotifications by a user
\* who is not in the community's members answers 400 and changes nothing;
\* by a member it removes the community from the user's notifiedCommunities
\* when it is there and adds it when it is not, answers 200 and changes
\* nothing else, so that a second toggle undoes the first.
C23_ToggleStep(r) ==
  /\ ( /\ creq[r].pc = "idle" /\ creq'[r].pc = "done"
       /\ cres'.op = "toggleNotifications"
       /\ IsObjectId(cres'.id) /\ community[cres'.id].exists ) =>
         /\ ~IsMember(cres'.userId, cres'.id)
         /\ cres'.status = 400
         /\ StoreUnchanged
  /\ ( creq[r].pc = "idle" /\ creq'[r].op = "toggleNotifications" ) =>
         /\ IsMember(creq'[r].userId, creq'[r].id)
         /\ StoreUnchanged
  /\ ( creq[r].op = "toggleNotifications" /\ creq[r].pc = "findUser"
       /\ Acts(r) ) =>
         /\ creq'[r].pc = "update"
         /\ StoreUnchanged
  /\ ( creq[r].op = "toggleNotifications" /\ creq[r].pc = "update"
       /\ Acts(r) ) =>
         LET u == creq[r].userId
             c == creq[r].id
         IN /\ creq'[r].pc = "done" /\ cres'.status = 200
            /\ cres'.userId = u /\ cres'.id = c
            /\ (c \in notified'[u]) = (c \notin notified[u])
            /\ notified'[u] \ {c} = notified[u] \ {c}
            /\ \A w \in Users \ {u} : notified'[w] = notified[w]
            /\ UNCHANGED <<community, joined, post>>
C23_ToggleFlips == [][\A r \in ReqSlots : C23_ToggleStep(r)]_vars
\* u2 has joined, switched the notifications off and switched them on again
C23_Witness ==
  /\ cres.op = "toggleNotifications" /\ cres.status = 200
  /\ cres.message = "Notifications enabled" /\ cres.userId = "u2"
  /\ "c1" \in notified["u2"] /\ "c1" \in joined["u2"]
  /\ \A r \in ReqSlots : creq[r].pc = "done"

\* C27: whenever no request is in flight, every community in a user's
\* notifiedCommunities is in that user's joinedCommunities.
C27_NotifiedAreJoined ==
  Quiescent => \A u \in Users : notified[u] \subseteq joined[u]

\* ----------------------------------------------- identity from token or body
\* The handlers behind optionalAuthMiddleware, one request at a time, with
\* what each request carried kept beside it.
Asks(op, reqUser, bodyUserId) ==
  ident' = [op |-> op, reqUser |-> reqUser, bodyUserId |-> bodyUserId]
AsksCommunity(r, op, reqUser, bodyUserId) ==
  /\ Asks(op, reqUser, bodyUserId)
  /\ run' = Observe(r)
  /\ UNCHANGED <<jobVars, likeVars, saveVars, authVars, ownerVars, account>>
AsksLike(op, reqUser, bodyUserId) ==
  /\ Asks(op, reqUser, bodyUserId)
  /\ UNCHANGED <<communityVars, jobVars, saveVars, authVars, ownerVars,
                 account>>

\* a request is admitted when none is in flight, MaxReqs requests in all
NoneInFlight ==
  /\ \A q \in ReqSlots : ~InFlight(q)
  /\ \A q \in ReqSlots : lreq[q].pc \in {"idle", "done"}
  /\ Cardinality({q \in ReqSlots : creq[q].pc # "idle"})
       + Cardinality({q \in ReqSlots : lreq[q].pc # "idle"}) < MaxReqs

NextIdentity ==
  \/ /\ NoneInFlight
     /\ \E r \in ReqSlots, id \in IdParams, reqUser \in ReqUsers,
           bodyUserId \in BodyUserIds :
          \/ /\ JoinReceive(r, id, reqUser, bodyUserId)
             /\ AsksCommunity(r, "joinCommunity", reqUser, bodyUserId)
          \/ /\ LeaveReceive(r, id, reqUser, bodyUserId)
             /\ AsksCommunity(r, "leaveCommunity", reqUser, bodyUserId)
          \/ /\ \E content \in BOOLEAN :
                  PostReceive(r, id, reqUser, bodyUserId, content)
             /\ AsksCommunity(r, "createPost", reqUser, bodyUserId)
  \/ /\ NoneInFlight
     /\ \E r \in ReqSlots, id \in PostIdParams, reqUser \in ReqUsers,
           bodyUserId \in BodyUserIds :
          \/ /\ LikeReceive(r, id, reqUser, bodyUserId)
             /\ AsksLike("likePost", reqUser, bodyUserId)
          \/ /\ UnlikeReceive(r, id, reqUser, bodyUserId)
             /\ AsksLike("unlikePost", reqUser, bodyUserId)
  \/ \E r \in ReqSlots : JoinFindUser(r) /\ Observed(r)
  \/ \E r \in ReqSlots : JoinSave(r) /\ Observed(r)
  \/ \E r \in ReqSlots : JoinUserUpdate(r) /\ Observed(r)
  \/ \E r \in ReqSlots : LeaveFindUser(r) /\ Observed(r)
  \/ \E r \in ReqSlots : LeaveSave(r) /\ Observed(r)
  \/ \E r \in ReqSlots : LeaveUserUpdate(r) /\ Observed(r)
  \/ \E r \in ReqSlots : PostFindUser(r) /\ Observed(r)
  \/ \E r \in ReqSlots : PostUserUpdate(r) /\ Observed(r)
  \/ \E r \in ReqSlots : PostSaveMembers(r) /\ Observed(r)
  \/ \E r \in ReqSlots : PostCreate(r) /\ Observed(r)
  \/ \E r \in ReqSlots : PostSavePosts(r) /\ Observed(r)
  \/ \E r \in ReqSlots : LikeFindUser(r) /\ OtherThanLike
  \/ \E r \in ReqSlots : LikeSave(r) /\ OtherThanLike
  \/ \E r \in ReqSlots : UnlikeFindUser(r) /\ OtherThanLike
  \/ \E r \in ReqSlots : UnlikeSave(r) /\ OtherThanLike

\* the community "c1" of "u1" without a post yet
InitIdentity ==
  /\ community = [c \in Communities |-> NewCommunity("u1")]
  /\ joined = [u \in Users |-> IF u = "u1" THEN {"c1"} ELSE {}]
  /\ notified = [u \in Users |-> IF u = "u1" THEN {"c1"} ELSE {}]
  /\ post = [p \in Posts |-> NoPost]
  /\ NoCommunityRequests
  /\ NoJobRequests
  /\ NoLikeRequests

IdentitySpec == InitIdentity /\ [][NextIdentity]_vars

\* ------------------------------------------------------------ identity claim
\* the identity the handler may act for, given what the request carried
ActsFor(u, a) ==
  IF a.reqUser # None THEN u = a.reqUser
  ELSE u = a.bodyUserId /\ a.bodyUserId \in Users
ElementsOf(seq) == {seq[i] : i \in DOMAIN seq}

\* C24: a handler acts for req.body.userId only when the request has no
\* token identity and the id names a stored user (the user lookup is made
\* only without a token identity, for the id sent); every id in a
\* community's members, in a post's likes and in a post's author names a
\* stored user; and a join, leave, like or unlike that carries neither a
\* token identity nor the id of a stored user leaves the store as it was.
C24_IdentityStep ==
  /\ \A r \in ReqSlots :
       /\ ( creq'[r].op \in {"joinCommunity", "leaveCommunity", "createPost"}
            /\ creq'[r].pc = "findUser" ) =>
              ident'.reqUser = None /\ creq'[r].userId = ident'.bodyUserId
       /\ ( creq'[r].op \in {"joinCommunity", "leaveCommunity"}
            /\ creq'[r].pc \in {"save", "userUpdate"} ) =>
              ActsFor(creq'[r].userId, ident')
       /\ ( creq'[r].op = "createPost"
            /\ creq'[r].pc \in {"userUpdate", "saveMembers", "createPost",
                                "savePosts"} ) =>
              \/ ActsFor(creq'[r].userId, ident')
              \/ /\ creq'[r].userId = None /\ ident'.reqUser = None
                 /\ ident'.bodyUserId \notin Users
       /\ ( lreq'[r].op \in {"likePost", "unlikePost"}
            /\ lreq'[r].pc = "findUser" ) =>
              ident'.reqUser = None /\ lreq'[r].userId = ident'.bodyUserId
       /\ ( lreq'[r].op \in {"likePost", "unlikePost"}
            /\ lreq'[r].pc = "save" ) =>
              ActsFor(lreq'[r].userId, ident')
  /\ \A c \in Communities : ElementsOf(community'[c].members) \subseteq Users
  /\ \A p \in Posts :
       /\ ElementsOf(post'[p].likes) \subseteq Users
       /\ post'[p].exists => post'[p].author \in Users \cup {None}
  /\ ( /\ ident'.op \in {"joinCommunity", "leaveCommunity", "likePost",
                         "unlikePost"}
       /\ ident'.reqUser = None
       /\ ident'.bodyUserId \notin Users ) => StoreUnchanged
C24_BodyIdentityValidated == [][C24_IdentityStep]_vars
\* u2, named in the body only, has posted and liked; a join that names an
\* unknown user in the body was refused
C24_Witness ==
  /\ post["p1"].exists /\ post["p1"].author = "u2"
  /\ Includes(post["p1"].likes, "u2")
  /\ Includes(community["c1"].members, "u2")
  /\ ident = [op |-> "joinCommunity", reqUser |-> None,
              bodyUserId |-> UnknownUser]
  /\ cres.op = "joinCommunity" /\ cres.status = 404
  /\ cres.message = "User not found"
  /\ \A r \in ReqSlots : lres[r].userId \in {None, "u2"}

\* ============================================================ user accounts
\* ticks of the clock a reset token stays valid (10 minutes)
ResetLife == 1

\* the server with the signing key set and the seed user stored
InitAccount ==
  /\ community = [c \in Communities |-> NoCommunity]
  /\ joined = [u \in Users |-> {}]
  /\ notified = [u \in Users |-> {}]
  /\ post = [p \in Posts |-> NoPost]
  /\ NoCommunityRequests
  /\ NoJobRequests
  /\ NoLikeRequests

OtherThanAccount ==
  UNCHANGED <<communityVars, post, jobVars, likeVars, saveVars, ownerVars,
              jwtSecret, ident>>

\* req.user.id behind authMiddleware: the id of a stored user
StoredUsers == {i \in UserIds : user[i].exists}

\* UserSchema.pre("save"): the hash a save of the document stores.  When the
\* password is modified the hook replaces it by its bcrypt hash before the
\* write.  When it is not, the hook calls next() and the write goes out
\* without the password path; what the hook does after next() (bcrypt.hash of
\* a password that was not selected rejects) comes after the write was built
\* and its outcome is dropped, next having been called.
StoredPasswordRehashed(stored, isModified, password) ==
  IF isModified THEN Hash(password) ELSE Hash(stored[1])
StoredPassword(stored, isModified, password) ==
  IF isModified THEN Hash(password) ELSE stored

\* ------------------------------------------ experience and education entries
ProfileOps == {"addExperience", "deleteExperience", "addEducation",
               "deleteEducation"}
FieldOf(op) == IF op \in {"addExperience", "deleteExperience"}
               THEN "experience" ELSE "education"
\* array.unshift(x)
UnshiftEntry(seq, x) == <<x>> \o seq
\* array.splice(array.findIndex(e => e._id.toString() === id), 1)
SpliceEntry(seq, x) ==
  LET i == CHOOSE k \in DOMAIN seq :
             seq[k] = x /\ \A m \in DOMAIN seq : seq[m] = x => k <= m
  IN [k \in 1..(Len(seq) - 1) |-> IF k < i THEN seq[k] ELSE seq[k + 1]]

\* User.findById(req.user.id) and the change of the local array; the entry
\* added gets a fresh _id, the entry to delete is named by the route
ProfileFind(r) ==
  /\ CanStartAuth(r)
  /\ \E op \in ProfileOps, reqUser \in StoredUsers, id \in ReqSlots :
       LET field == FieldOf(op)
           doc == account[reqUser]
       IN IF op \in {"addExperience", "addEducation"}
          THEN GotoAuth(r, [IdleAuthReq EXCEPT
                              !.op = op, !.pc = "save", !.userId = reqUser,
                              !.doc = [doc EXCEPT
                                         ![field] = UnshiftEntry(@, r)]])
          ELSE IF ~Includes(doc[field], id)
          THEN Answer(r, op, 404, IF field = "experience"
                                  THEN "Experience not found"
                                  ELSE "Education not found")
          ELSE GotoAuth(r, [IdleAuthReq EXCEPT
                              !.op = op, !.pc = "save", !.userId = reqUser,
                              !.doc = [doc EXCEPT
                                         ![field] = SpliceEntry(@, id)]])
  /\ UNCHANGED <<user, account>>

\* user.save(): the array is replaced if the stored version is the one read
\* (VersionError, caught, 500 otherwise); the password is not modified
ProfileSave(r) ==
  /\ areq[r].op \in ProfileOps /\ areq[r].pc = "save"
  /\ LET i == areq[r].userId
         field == FieldOf(areq[r].op)
     IN IF account[i].v = areq[r].doc.v
        THEN /\ account' = [account EXCEPT ![i][field] = areq[r].doc[field],
                                           ![i].v = @ + 1]
             /\ user' = [user EXCEPT
                           ![i].password = StoredPassword(@, FALSE, Undefined)]
             /\ Answer(r, areq[r].op, 200, "success")
        ELSE /\ UNCHANGED <<user, account>>
             /\ Answer(r, areq[r].op, 500, "Server error")

\* ------------------------------------------------------------ forgotPassword
\* User.findOne({email}), the 404, a fresh random token (the slot number),
\* its hash and Date.now() + 10 minutes on the local document
ForgotFind(r) ==
  /\ CanStartAuth(r)
  /\ \E email \in Emails :
       IF UsersWithEmail(email) = {}
       THEN Answer(r, "forgotPassword", 404, "User not found")
       ELSE LET i == CHOOSE k \in UsersWithEmail(email) : TRUE
            IN GotoAuth(r, [IdleAuthReq EXCEPT
                              !.op = "forgotPassword", !.pc = "save",
                              !.userId = i, !.email = email, !.resettoken = r,
                              !.doc = [account[i] EXCEPT
                                 !.resetPasswordToken = Sha256(r),
                                 !.resetPasswordExpire = {now + ResetLife}]])
  /\ UNCHANGED <<user, account>>

\* user.save() of the two reset fields (the password is not modified) and
\* the 200 that carries the token
ForgotSave(r) ==
  /\ areq[r].op = "forgotPassword" /\ areq[r].pc = "save"
  /\ LET i == areq[r].userId
     IN /\ account' = [account EXCEPT
                         ![i].resetPasswordToken =
                            areq[r].doc.resetPasswordToken,
                         ![i].resetPasswordExpire =
                            areq[r].doc.resetPasswordExpire]
        /\ user' = [user EXCEPT
                      ![i].password = StoredPassword(@, FALSE, Undefined)]
        /\ RespondAuth(r, [NoAuthRes EXCEPT
                             !.op = "forgotPassword", !.status = 200,
                             !.message = "Password reset token generated",
                             !.user = i, !.resetToken = areq[r].resettoken,
                             !.expires = areq[r].doc.resetPasswordExpire,
                             !.nextCalls = 1, !.handler = TRUE])

\* ------------------------------------------------------------- resetPassword
\* User.findOne({resetPasswordToken, resetPasswordExpire: {$gt: Date.now()}})
NotExpiredAlways(doc, t) == TRUE
NotExpired(doc, t) == \E e \in doc.resetPasswordExpire : e > t
TokenUsers(resettoken, t) ==
  {i \in UserIds : /\ user[i].exists
                   /\ account[i].resetPasswordToken = Sha256(resettoken)
                   /\ NotExpired(account[i], t)}

\* the lookup and the 400; the token in the route is any token ever issued
\* or a guess
ResetFind(r) ==
  /\ CanStartAuth(r)
  /\ \E resettoken \in ReqSlots, password \in Passwords \cup {Undefined} :
       IF TokenUsers(resettoken, now) = {}
       THEN RespondAuth(r, [NoAuthRes EXCEPT
                              !.op = "resetPassword", !.status = 400,
                              !.message = "Invalid or expired token",
                              !.resetToken = resettoken,
                              !.nextCalls = 1, !.handler = TRUE])
       ELSE GotoAuth(r, [IdleAuthReq EXCEPT
                           !.op = "resetPassword", !.pc = "save",
                           !.userId = CHOOSE k \in TokenUsers(resettoken, now) :
                                        TRUE,
                           !.password = password, !.resettoken = resettoken])
  /\ UNCHANGED <<user, account>>

\* user.password = req.body.password, the two reset fields unset,
\* user.save() (a missing password fails validation: caught, 500), then
\* generateToken, the cookie and the 200
ResetSave(r) ==
  /\ areq[r].op = "resetPassword" /\ areq[r].pc = "save"
  /\ LET i == areq[r].userId
     IN IF areq[r].password = Undefined
        THEN /\ UNCHANGED <<user, account>>
             /\ RespondAuth(r, [NoAuthRes EXCEPT
                                  !.op = "resetPassword", !.status = 500,
                                  !.message = "Server error", !.user = i,
                                  !.resetToken = areq[r].resettoken,
                                  !.nextCalls = 1, !.handler = TRUE])
        ELSE /\ user' = [user EXCEPT
                           ![i].password =
                              StoredPassword(@, TRUE, areq[r].password)]
             /\ account' = [account EXCEPT ![i].resetPasswordToken = <<>>,
                                           ![i].resetPasswordExpire = {}]
             /\ RespondAuth(r, [NoAuthRes EXCEPT
                                  !.op = "resetPassword",
                                  !.status = IF jwtSecret THEN 200 ELSE 500,
                                  !.message = IF jwtSecret
                                              THEN "Password reset successful"
                                              ELSE "Server error",
                                  !.token = IF jwtSecret THEN Sign(i, now)
                                            ELSE NoToken,
                                  !.cookie = jwtSecret, !.user = i,
                                  !.resetToken = areq[r].resettoken,
                                  !.nextCalls = 1, !.handler = TRUE])

\* ------------------------------------------------- password specification
\* register, login, the profile saves, forgotPassword and resetPassword, a
\* request admitted only when none is in flight
AccountInFlight == \E q \in ReqSlots : areq[q].pc \notin {"idle", "done"}
OneAccountAtATime ==
  \A r \in ReqSlots :
    ( areq[r].pc = "idle" /\ areq'[r].pc # "idle" ) => ~AccountInFlight

NextPassword ==
  \/ \E r \in ReqSlots : RegisterFind(r) /\ OtherThanAuth
  \/ \E r \in ReqSlots : RegisterCreate(r) /\ OtherThanAuth
  \/ \E r \in ReqSlots : LoginFind(r) /\ OtherThanAuth
  \/ \E r \in ReqSlots : LoginMatch(r) /\ OtherThanAuth
  \/ \E r \in ReqSlots : ProfileFind(r) /\ OtherThanAccount
  \/ \E r \in ReqSlots : ProfileSave(r) /\ OtherThanAccount
  \/ \E r \in ReqSlots : ForgotFind(r) /\ OtherThanAccount
  \/ \E r \in ReqSlots : ForgotSave(r) /\ OtherThanAccount
  \/ \E r \in ReqSlots : ResetFind(r) /\ OtherThanAccount
  \/ \E r \in ReqSlots : ResetSave(r) /\ OtherThanAccount
  \/ Tick /\ OtherThanJob

NextPasswordSeq == NextPassword /\ OneAccountAtATime
PasswordSeqSpec == InitAccount /\ [][NextPasswordSeq]_vars

\* ----------------------------------------------------------- password claims
\* a save that does not set the password: a profile save or forgotPassword
PlainSaves(r) ==
  /\ areq[r].op \in ProfileOps \cup {"forgotPassword"}
  /\ areq[r].pc = "save" /\ areq'[r].pc = "done"
\* a successful resetPassword for user i was answered
WasReset(i) ==
  \E q \in ReqSlots : /\ ares[q].op = "resetPassword"
                      /\ ares[q].user = i /\ ares[q].status # 400

\* C28: a save of the user document that does not set the password
\* (addExperience, deleteExperience, addEducation, deleteEducation,
\* forgotPassword) completes with 200 and leaves every stored hash as it
\* was, and a login of the seed user with the password it registered with,
\* no resetPassword having been accepted for it, is answered 200
C28_SaveStep(r) ==
  /\ PlainSaves(r) => ( ares'[r].status = 200 /\ user' = user )
  /\ ( /\ areq[r].op = "login" /\ areq[r].pc = "match"
       /\ areq'[r].pc = "done"
       /\ areq[r].userId = 1 /\ areq[r].password = "pw1"
       /\ ~WasReset(1) )
     => ares'[r].status = 200
C28_HashKept == [][\A r \in ReqSlots : C28_SaveStep(r)]_vars

\* a forgotPassword, then a profile save, then a login with "pw1", all 200
C28_Witness ==
  /\ ares[1].op = "forgotPassword" /\ ares[1].status = 200 /\ ares[1].user = 1
  /\ ares[2].op \in ProfileOps /\ ares[2].status = 200
  /\ ares[3].op = "login" /\ ares[3].status = 200 /\ ares[3].user = 1

\* forgotPassword answered in slot q with its token, for the user it names
Issued(q) == ares[q].op = "forgotPassword" /\ ares[q].status = 200
\* token t is the one the latest forgotPassword of its user issued, it is
\* not expired, and no resetPassword with it was answered 200
ValidToken(t) ==
  \E q \in ReqSlots :
    /\ Issued(q) /\ ares[q].resetToken = t
    /\ \A k \in ReqSlots :
         ( Issued(k) /\ ares[k].user = ares[q].user ) => k <= q
    /\ \A e \in ares[q].expires : now < e
    /\ \A k \in ReqSlots :
         ~( /\ ares[k].op = "resetPassword" /\ ares[k].status = 200
            /\ ares[k].resetToken = t )
\* resetPassword arrives in slot r and does its lookup
Presents(r) ==
  /\ areq[r].pc = "idle" /\ areq'[r].pc # "idle"
  /\ "resetPassword" \in {areq'[r].op, ares'[r].op}
Presented(r) ==
  IF areq'[r].pc = "done" THEN ares'[r].resetToken ELSE areq'[r].resettoken

\* C29: requests served one after the other, resetPassword goes on to set
\* the password exactly when the token presented was issued by the latest
\* forgotPassword of its user, is not expired and was not used by a
\* successful resetPassword; otherwise it answers 400 and no stored
\* password changes
C29_ResetStep(r) ==
  Presents(r) =>
    /\ areq'[r].pc = "save" <=> ValidToken(Presented(r))
    /\ ~ValidToken(Presented(r)) => ( ares'[r].status = 400 /\ user' = user )
    /\ ValidToken(Presented(r)) =>
         \E q \in ReqSlots : /\ Issued(q) /\ ares[q].resetToken = Presented(r)
                             /\ areq'[r].userId = ares[q].user
C29_SingleUse == [][\A r \in ReqSlots : C29_ResetStep(r)]_vars

\* a token was issued, used by a successful reset, and presented again: 400
C29_Witness ==
  /\ Issued(1)
  /\ ares[2].op = "resetPassword" /\ ares[2].status = 200
  /\ ares[2].resetToken = ares[1].resetToken
  /\ ares[3].op = "resetPassword" /\ ares[3].status = 400
  /\ ares[3].resetToken = ares[1].resetToken

\* ------------------------------------------------------------- updateProfile
\* req.body.email: not sent, an address, an address in capitals, or a
\* string that is no address
EmailInputs == Emails \cup {None, "E1", "nomail"}
\* the schema's lowercase: true, applied when the update is cast
Lowercase(email) == IF email = "E1" THEN "e1" ELSE email
\* the schema's match, run by runValidators
ValidEmail(email) == email \in Emails

\* the unique index on email: another document holds the value
DuplicateKeyNever(email, id) == FALSE
DuplicateKey(email, id) ==
  \E k \in UserIds : k # id /\ user[k].exists /\ user[k].email = email

\* the profile fields (if (email) profileFields.email = email) and
\* User.findById(req.user.id); authMiddleware has found the user, and no
\* handler removes one
UpdateProfileFind(r) ==
  /\ CanStartAuth(r)
  /\ \E reqUser \in StoredUsers, email \in EmailInputs :
       GotoAuth(r, [IdleAuthReq EXCEPT
                      !.op = "updateProfile", !.pc = "update",
                      !.userId = reqUser, !.email = email])
  /\ UNCHANGED <<user, account>>

\* User.findByIdAndUpdate(req.user.id, {$set: profileFields},
\* {new: true, runValidators: true}): a ValidationError and a duplicate
\* key are caught and answered 400
UpdateProfileUpdate(r) ==
  /\ areq[r].op = "updateProfile" /\ areq[r].pc = "update"
  /\ LET i == areq[r].userId
         email == Lowercase(areq[r].email)
     IN IF email = None
        THEN /\ GotoAuth(r, [areq[r] EXCEPT !.pc = "touch"])
             /\ UNCHANGED user
        ELSE IF ~ValidEmail(email)
        THEN /\ Answer(r, "updateProfile", 400, "Validation error")
             /\ UNCHANGED user
        ELSE IF DuplicateKey(email, i)
        THEN /\ Answer(r, "updateProfile", 400, "email already exists")
             /\ UNCHANGED user
        ELSE /\ user' = [user EXCEPT ![i].email = email]
             /\ GotoAuth(r, [areq[r] EXCEPT !.pc = "touch"])
  /\ UNCHANGED account

\* user.updatedAt = new Date() (no path of the schema: nothing to write),
\* user.save() with the password left out of the document, and the 200
UpdateProfileSave(r) ==
  /\ areq[r].op = "updateProfile" /\ areq[r].pc = "touch"
  /\ user' = [user EXCEPT ![areq[r].userId].password =
                StoredPassword(@, FALSE, Undefined)]
  /\ RespondAuth(r, [NoAuthRes EXCEPT
                       !.op = "updateProfile", !.status = 200,
                       !.message = "success", !.user = areq[r].userId,
                       !.email = user[areq[r].userId].email,
                       !.nextCalls = 1, !.handler = TRUE])
  /\ UNCHANGED account

\* register and updateProfile, interleaved freely
NextEmail ==
  \/ \E r \in ReqSlots : RegisterFind(r) /\ OtherThanAuth
  \/ \E r \in ReqSlots : RegisterCreate(r) /\ OtherThanAuth
  \/ \E r \in ReqSlots : UpdateProfileFind(r) /\ OtherThanAccount
  \/ \E r \in ReqSlots : UpdateProfileUpdate(r) /\ OtherThanAccount
  \/ \E r \in ReqSlots : UpdateProfileSave(r) /\ OtherThanAccount

EmailSpec == InitAccount /\ [][NextEmail]_vars

\* C25: no two stored users have the same email, however register and
\* updateProfile requests interleave
C25_EmailUnique ==
  \A i, k \in UserIds :
    ( user[i].exists /\ user[k].exists /\ user[i].email = user[k].email )
      => i = k

\* two users are stored and an updateProfile asking for the other user's
\* email was answered 400
C25_Witness ==
  /\ Cardinality(StoredUsers) >= 2
  /\ \E r \in ReqSlots : /\ ares[r].op = "updateProfile"
                         /\ ares[r].message = "email already exists"

\* ----------------------------------------------------------- response bodies
\* the keys of the JSON body authMiddleware and getMe send with a response
\* (status 0: no response, the request went on to its handler)
BodyFields(res) ==
  IF res.status = 0 THEN {}
  ELSE IF res.status = 200 THEN {"success", "user"}
  ELSE IF res.message \in {"Authentication required",
                           "Authentication expired", "Invalid authentication"}
  THEN {"message", "error", "help"}
  ELSE {"message", "error"}

\* C26: every response with an error status (4xx or 5xx), from a middleware
\* or a controller, carries success: false and a message
C26_ErrorEnvelope ==
  \A r \in ReqSlots :
    ares[r].status >= 400 => {"success", "message"} \subseteq BodyFields(ares[r])

\* ------------------------------------------- applications and their status
\* the requests of the two routes together number at most MaxReqs
StatusAdmits ==
  Cardinality({q \in ReqSlots : jreq[q].pc # "idle"})
    + Cardinality({q \in ReqSlots : oreq[q].pc # "idle"}) < MaxReqs

\* applyForJob and updateApplicationStatus, interleaved freely
NextStatus ==
  \/ \E r \in ReqSlots : ApplyFind(r) /\ StatusAdmits /\ OtherThanJob
  \/ \E r \in ReqSlots : ApplySave(r) /\ OtherThanJob
  \/ \E r \in ReqSlots : ApplyUserUpdate(r) /\ OtherThanJob
  \/ \E r \in ReqSlots : StatusFind(r) /\ StatusAdmits /\ OtherThanOwner
  \/ \E r \in ReqSlots : StatusSave(r) /\ OtherThanOwner
  \/ \E r \in ReqSlots : StatusUserUpdate(r) /\ OtherThanOwner

StatusSpec == InitOwner /\ [][NextStatus]_vars

\* no applyForJob and no updateApplicationStatus is in flight
StatusQuiet ==
  \A r \in ReqSlots : /\ jreq[r].pc \in {"idle", "done"}
                      /\ oreq[r].pc \in {"idle", "done"}
\* every applicant entry of every job has one of the five statuses, and the
\* applicant's appliedJobs records the job with the same status
StatusAgrees ==
  \A j \in Jobs : \A i \in DOMAIN job[j].applicants :
    LET app == job[j].applicants[i]
    IN /\ app.status \in ValidStatuses
       /\ HasApplied(appliedJobs[app.user], j)
       /\ \A k \in DOMAIN appliedJobs[app.user] :
            appliedJobs[app.user][k].job = j =>
              appliedJobs[app.user][k].status = app.status
\* updateApplicationStatus arrives in slot r with a status outside the set
InvalidStatus(r) ==
  /\ OwnerChecks(r) /\ OwnerOp(r) = "updateApplicationStatus"
  /\ \/ ores'[r].message = "Invalid status"
     \/ oreq'[r].status \notin ValidStatuses \cup {None}

\* C30: whenever no applyForJob or updateApplicationStatus is in flight, the
\* status of each applicant of each job is one of the five values and equals
\* the status in that user's appliedJobs entry for the job; and an
\* updateApplicationStatus with any other status is answered 400 and
\* changes nothing
C30_StatusStep ==
  /\ StatusQuiet' => StatusAgrees'
  /\ \A r \in ReqSlots :
       InvalidStatus(r) =>
         ( ores'[r].status = 400 /\ UNCHANGED <<job, appliedJobs>> )
C30_StatusConsistent == [][C30_StatusStep]_vars
====
